---- MODULE Spec2Model ----
(***************************************************************************)
(* Model of the protocol graph compiler: the ranked tree with its root-    *)
(* owned ID map (graph/base.py), the option specification engine           *)
(* (graph/spec.py), the task resolver (builder/taskresolver.py) and the    *)
(* evolution stage compilers (preprocessor/stage.py,                       *)
(* builder/stagecompiler.py).                                              *)
(***************************************************************************)
EXTENDS Integers, Sequences, FiniteSets, TLC

VARIABLES
    nodes,      \* node -> [parent, rank, label, decl, type]: fixed at construction
    children,   \* node -> tuple of child nodes (NodeChildren._tuple)
    idxCache,   \* node -> index memoised by GraphNode._get_children_index
    rootMap,    \* GraphRoot._map: insertion-ordered dict, as a sequence of [id, node]
    mutated,    \* GraphRoot._mutated_nodes_ids
    err,        \* outcome of the last operation: "ok" or the exception raised
    lastOp,     \* name of the last operation that ran
    nmut,       \* number of child mutations performed so far
    vSchema,    \* options model: the (rank, type) whose NodeOptions is used
    vOpts,      \* options model: the node option map, key -> kind of its value
    vResult,    \* options model: outcome of the last verify
    sched,      \* compiler model: the schedule, [start_time, stages]
    out,        \* compiler model: the stages compiled so far, in order
    family,     \* compiler model: the stage compiler in use
    optDicts,   \* build model: the option dicts of the user graph, by label
    passes,     \* build model: the passes run so far, in order
    given,      \* build model: the user graph as it was handed to the build
    built       \* build model: the Run Graphs returned so far

treeVars == <<nodes, children, idxCache, rootMap, mutated, err, lastOp, nmut>>

optVars == <<vSchema, vOpts, vResult>>

compVars == <<sched, out, family>>

buildVars == <<optDicts, passes, given, built>>

vars == <<nodes, children, idxCache, rootMap, mutated, err, lastOp, nmut,
          vSchema, vOpts, vResult, sched, out, family,
          optDicts, passes, given, built>>

-----------------------------------------------------------------------------
(* Bounds *)

MaxInitNodes == 3      \* non-root nodes of a constructed graph
MaxNodes == 5          \* nodes ever created in one behaviour of the tree model
MaxMutations == 2      \* child mutations in one behaviour of the tree model
MaxNew == 1            \* nodes handed to one add_children / replace_child call
MaxUserNodes == 5      \* non-root nodes of a user graph given to the resolver
MaxRemoved == 2        \* keys left out of an otherwise complete option map
MaxStart == 1          \* start_time of a schedule
MaxPropagationTime == 2 \* propagation_time of an evolution stage
MaxNumsteps == 3       \* monitoring_numsteps of an evolution stage
MaxTemplates == 1      \* monitoring routine templates of an evolution stage
MaxTasks == 2          \* Tasks of a stage
MaxRoutines == 2       \* user routines of a stage, over all its Tasks
MaxStages == 3         \* stages of a schedule
MaxPasses == 2         \* set_type passes over one graph
MaxBuilds == 2         \* calls of a driver on one user graph
MaxSchedules == 2      \* schedules a Protocol is constructed from
MaxOffset == 2         \* tasktime of a template's routine
MaxAnchor == 1         \* stagetime or systemtime of a referencing Task

(* Program constants *)

LeafRank == 3          \* max(hierarchy.values()): rank of "Routine"
TaskRank == 2          \* hierarchy["Task"]

Root == 1              \* the GraphRoot is the first node constructed
NoNode == 0            \* GraphNodeNONE, the parent of the root
NoIdx == -1            \* no memoised index / node not among the children

-----------------------------------------------------------------------------
(* Sequence helpers *)

RECURSIVE Concat(_)
Concat(ss) == IF ss = <<>> THEN <<>> ELSE Head(ss) \o Concat(Tail(ss))

RECURSIVE SumSeq(_)
SumSeq(s) == IF s = <<>> THEN 0 ELSE Head(s) + SumSeq(Tail(s))

Range(s) == {s[i] : i \in 1..Len(s)}

\* Python slices t[:i] and t[i+1:] for an index i >= 0
SliceTo(t, i) == SubSeq(t, 1, IF i < Len(t) THEN i ELSE Len(t))
SliceFrom(t, i) == SubSeq(t, i + 1, Len(t))

-----------------------------------------------------------------------------
(* graph/base.py: NodeChildren, GraphNode.ID *)

\* NodeChildren.index: np.where(id_arr == id(node))[0][0], 0-based; NoIdx
\* stands for the IndexError of an empty match
Index(tuple, node) ==
    IF \E i \in 1..Len(tuple) : tuple[i] = node
    THEN (CHOOSE i \in 1..Len(tuple) :
              /\ tuple[i] = node
              /\ \A j \in 1..(i - 1) : tuple[j] # node) - 1
    ELSE NoIdx

\* GraphNode._get_children_index under functools.cache: the key is
\* (node, parent._children), and parent._children is one object for the
\* whole life of the parent, so a memoised index is returned for ever
GetChildrenIndex(ns, ch, ca, n) ==
    IF ca[n] # NoIdx THEN ca[n] ELSE Index(ch[ns[n].parent], n)

\* GraphNode.ID: (*parent.ID.tuple, index); GraphRoot.ID is the constant (0,)
RECURSIVE IDDefined(_, _, _, _)
IDDefined(ns, ch, ca, n) ==
    IF n = Root THEN TRUE
    ELSE /\ IDDefined(ns, ch, ca, ns[n].parent)
         /\ GetChildrenIndex(ns, ch, ca, n) # NoIdx

RECURSIVE ID(_, _, _, _)
ID(ns, ch, ca, n) ==
    IF n = Root THEN <<0>>
    ELSE Append(ID(ns, ch, ca, ns[n].parent), GetChildrenIndex(ns, ch, ca, n))

\* the memo table after node.ID was evaluated: parent.ID first, then the
\* node's own index; an IndexError on the way leaves the rest unmemoised
RECURSIVE CacheAfterID(_, _, _, _)
CacheAfterID(ns, ch, ca, n) ==
    IF n = Root THEN ca
    ELSE LET ca1 == CacheAfterID(ns, ch, ca, ns[n].parent)
         IN  IF /\ IDDefined(ns, ch, ca, ns[n].parent)
                /\ GetChildrenIndex(ns, ch, ca, n) # NoIdx
             THEN [ca1 EXCEPT ![n] = GetChildrenIndex(ns, ch, ca, n)]
             ELSE ca1

\* GraphNode._it: the node, then its subtree in pre-order; a node of rank
\* leaf_rank - 1 lists its children without descending into them
RECURSIVE It(_, _, _)
It(ns, ch, n) ==
    IF ns[n].rank = LeafRank - 1
    THEN <<n>> \o ch[n]
    ELSE <<n>> \o Concat([i \in 1..Len(ch[n]) |-> It(ns, ch, ch[n][i])])

-----------------------------------------------------------------------------
(* graph/base.py: GraphRoot map *)

\* dict.__setitem__ on an insertion-ordered dict
DictSet(d, k, v) ==
    IF \E i \in 1..Len(d) : d[i].id = k
    THEN [i \in 1..Len(d) |-> IF d[i].id = k THEN [id |-> k, node |-> v] ELSE d[i]]
    ELSE Append(d, [id |-> k, node |-> v])

\* dict.update(other)
RECURSIVE DictUpdate(_, _)
DictUpdate(d, other) ==
    IF other = <<>> THEN d
    ELSE DictUpdate(DictSet(d, Head(other).id, Head(other).node), Tail(other))

\* GraphNode._local_map: dict(zip(self._it_id, self._it))
LocalMap(ns, ch, ca, n) ==
    LET it == It(ns, ch, n)
    IN  DictUpdate(<<>>, [i \in 1..Len(it) |->
                            [id |-> ID(ns, ch, ca, it[i]), node |-> it[i]]])

\* memo table after every node of _it had its ID evaluated
CacheAfterLocalMap(ns, ch, ca, n) ==
    LET reach == Range(It(ns, ch, n))
    IN  [m \in DOMAIN ca |->
            IF m \in reach /\ m # Root /\ ca[m] = NoIdx
            THEN Index(ch[ns[m].parent], m) ELSE ca[m]]

\* GraphNodeID.rank
IDRank(id) == Len(id) - 1

\* GraphRoot.goto(par) as called by _validate_map: the ID object is the one
\* element of *target_id, the prefix comparison and the descent both run
\* over nothing, and the node returned is the root itself
GotoFromValidate(par) == Root

\* GraphRoot._validate_map: [map, mutated, cache] after the call
ValidateMap(ns, ch, ca, mp, mut) ==
    IF mut = {} THEN [map |-> mp, mutated |-> mut, cache |-> ca]
    ELSE IF \A id \in mut : IDRank(id) = LeafRank - 1
    THEN \* only_leafs: _map.update(self.goto(par)._local_map()) for each par
         [map |-> DictUpdate(mp, LocalMap(ns, ch, ca, GotoFromValidate(mut))),
          mutated |-> {},
          cache |-> CacheAfterLocalMap(ns, ch, ca, Root)]
    ELSE \* _make_map
         [map |-> LocalMap(ns, ch, ca, Root), mutated |-> {},
          cache |-> CacheAfterLocalMap(ns, ch, ca, Root)]

-----------------------------------------------------------------------------
(* graph/base.py: child mutation, on a graph record                        *)
(* g = [nodes, children, cache, mutated, err]                              *)

\* GraphNode.__init__: a new node with the given parent and rank
NewNode(p, r, lbl) ==
    [parent |-> p, rank |-> r, label |-> lbl, decl |-> <<>>, type |-> "none"]

\* GraphRoot.register_children_mutation: _mutated_nodes_ids.add(node.ID)
RegisterChildrenMutation(g, p) ==
    IF IDDefined(g.nodes, g.children, g.cache, p)
    THEN [g EXCEPT !.mutated = @ \cup {ID(g.nodes, g.children, g.cache, p)},
                   !.cache = CacheAfterID(g.nodes, g.children, g.cache, p)]
    ELSE [g EXCEPT !.cache = CacheAfterID(g.nodes, g.children, g.cache, p),
                   !.err = "IndexError"]

\* GraphNode._set_children_tuple
SetChildrenTuple(g, p, new) ==
    IF \E i \in 1..Len(new) : g.nodes[new[i]].parent # p
    THEN [g EXCEPT !.err = "ValueError"]
    ELSE [g EXCEPT !.children[p] = new]

\* GraphNode.children setter
ChildrenSetter(g, p, new) ==
    LET g1 == SetChildrenTuple(g, p, new)
    IN  IF g1.err # "ok" THEN g1 ELSE RegisterChildrenMutation(g1, p)

\* GraphNode.set_children
SetChildren(g, p, new, quiet) ==
    IF ~quiet THEN ChildrenSetter(g, p, new) ELSE SetChildrenTuple(g, p, new)

\* GraphNode.add_children
AddChildren(g, p, add) == ChildrenSetter(g, p, g.children[p] \o add)

\* GraphNode.replace_child
ReplaceChild(g, p, index, new) ==
    ChildrenSetter(g, p,
        SliceTo(g.children[p], index) \o new \o SliceFrom(g.children[p], index + 1))

\* GraphNode.clear_children: del self.children
ClearChildren(g, p) == SetChildrenTuple(g, p, <<>>)

-----------------------------------------------------------------------------
(* builder/taskresolver.py *)

\* nodes created by _resolve_default: UserGraphNode(parent, opts, rank=3)
\* for opts in task_node.options["routines"]
RoutineNodes(g, task) ==
    [i \in 1..Len(g.nodes[task].decl) |->
        NewNode(g.nodes[task].parent, LeafRank, g.nodes[task].decl[i])]

\* TaskResolver._resolve_default
ResolveDefault(g, task) ==
    LET parent == g.nodes[task].parent
        new == RoutineNodes(g, task)
        first == Len(g.nodes)
        g1 == [g EXCEPT !.nodes = @ \o new,
                        !.children = @ \o [i \in 1..Len(new) |-> <<>>],
                        !.cache = @ \o [i \in 1..Len(new) |-> NoIdx]]
        ids == [i \in 1..Len(new) |-> first + i]
        \* task_node.ID.local
        g2 == [g1 EXCEPT !.cache = CacheAfterID(g1.nodes, g1.children, g1.cache, task)]
    IN  IF ~IDDefined(g1.nodes, g1.children, g1.cache, task)
        THEN [g2 EXCEPT !.err = "IndexError"]
        ELSE ReplaceChild(g2, parent,
                 GetChildrenIndex(g1.nodes, g1.children, g1.cache, task), ids)

\* TaskResolver.resolve(task_node) on one node
ResolveNode(g, n) ==
    IF g.nodes[n].rank # TaskRank THEN g
    ELSE IF g.nodes[n].type = "default" THEN ResolveDefault(g, n)
    ELSE [g EXCEPT !.err = "TaskResolverError"]

\* TaskResolver.resolve(root, graph=True): for ch in task_node: resolve(ch),
\* over the values of the map as it is when the loop starts
RECURSIVE ResolveAll(_, _)
ResolveAll(g, order) ==
    IF order = <<>> \/ g.err # "ok" THEN g
    ELSE ResolveAll(ResolveNode(g, Head(order)), Tail(order))

-----------------------------------------------------------------------------
(* Construction of a user graph: UserGraphRoot(options) *)

\* task lists (routines per task) that need at most k nodes
RECURSIVE TaskLists(_)
TaskLists(k) ==
    IF k = 0 THEN {<<>>}
    ELSE {<<>>} \cup UNION {{<<c>> \o s : s \in TaskLists(k - 1 - c)} : c \in 0..(k - 1)}

StageWeight(t) == 1 + Len(t) + SumSeq(t)

\* stage lists (a task list per stage) that need at most k nodes
RECURSIVE StageLists(_)
StageLists(k) ==
    IF k = 0 THEN {<<>>}
    ELSE {<<>>} \cup UNION {{<<t>> \o s : s \in StageLists(k - StageWeight(t))}
                             : t \in TaskLists(k - 1)}

\* UserGraphNode._post_init: children made from options[<child rank>s]
AddNode(g, p, r, ty) ==
    LET n == Len(g.nodes) + 1
    IN  [nodes |-> Append(g.nodes,
                     [parent |-> p, rank |-> r, label |-> n, decl |-> <<>>, type |-> ty]),
         children |-> IF p = NoNode THEN Append(g.children, <<>>)
                      ELSE [Append(g.children, <<>>) EXCEPT ![p] = Append(@, n)]]

RECURSIVE AddRoutines(_, _, _)
AddRoutines(g, task, k) ==
    IF k = 0 THEN g ELSE AddRoutines(AddNode(g, task, 3, "regular"), task, k - 1)

RECURSIVE AddTasks(_, _, _)
AddTasks(g, stage, tasks) ==
    IF tasks = <<>> THEN g
    ELSE LET g1 == AddNode(g, stage, 2, "default")
         IN  AddTasks(AddRoutines(g1, Len(g1.nodes), Head(tasks)), stage, Tail(tasks))

RECURSIVE AddStages(_, _)
AddStages(g, stages) ==
    IF stages = <<>> THEN g
    ELSE LET g1 == AddNode(g, Root, 1, "regular")
         IN  AddStages(AddTasks(g1, Len(g1.nodes), Head(stages)), Tail(stages))

\* the graph after UserGraphRoot(options): options["routines"] of a task is
\* the list its routine children were made from
Construct(stages) ==
    LET g == AddStages(AddNode([nodes |-> <<>>, children |-> <<>>], NoNode, 0, "default"),
                       stages)
    IN  [nodes |-> [n \in 1..Len(g.nodes) |->
                      IF g.nodes[n].rank = TaskRank
                      THEN [g.nodes[n] EXCEPT !.decl = g.children[n]]
                      ELSE g.nodes[n]],
         children |-> g.children]

\* GraphRoot.__init__ ends with _make_map()
InitGraph(shape) ==
    LET g == Construct(shape)
        ca0 == [n \in 1..Len(g.nodes) |-> NoIdx]
    IN  /\ nodes = g.nodes
        /\ children = g.children
        /\ idxCache = CacheAfterLocalMap(g.nodes, g.children, ca0, Root)
        /\ rootMap = LocalMap(g.nodes, g.children, ca0, Root)
        /\ mutated = {}
        /\ err = "ok"

-----------------------------------------------------------------------------
(* The tree model: a constructed graph under child mutations and map reads *)

\* the part of the state a model does not use
\* no schedule is being compiled
IdleCompile ==
    /\ sched = [start_time |-> 0, stages |-> <<>>]
    /\ out = <<>>
    /\ family = "idle"

\* no user graph is being built
NoGraph == [nodes |-> <<>>, children |-> <<>>, opts |-> <<>>]

IdleBuild ==
    /\ optDicts = <<>>
    /\ passes = <<>>
    /\ given = NoGraph
    /\ built = <<>>

\* verify has not been called
NotVerified == [ok |-> FALSE, error |-> "idle", names |-> {}]

IdleOptions ==
    /\ vSchema = <<"NONE", "NONE">>
    /\ vOpts = <<>>
    /\ vResult = NotVerified

IdleTree ==
    /\ nodes = <<>>
    /\ children = <<>>
    /\ idxCache = <<>>
    /\ rootMap = <<>>
    /\ mutated = {}
    /\ err = "ok"
    /\ lastOp = "idle"
    /\ nmut = 0

G == [nodes |-> nodes, children |-> children, cache |-> idxCache,
      mutated |-> mutated, err |-> "ok"]

Nodes == 1..Len(nodes)

Commit(g, op) ==
    /\ nodes' = g.nodes
    /\ children' = g.children
    /\ idxCache' = g.cache
    /\ mutated' = g.mutated
    /\ err' = g.err
    /\ lastOp' = op

\* g with k new nodes constructed for parent p (make_child), not yet attached
WithFresh(g, p, k) ==
    [g EXCEPT !.nodes = @ \o [i \in 1..k |-> NewNode(p, g.nodes[p].rank + 1, 0)],
              !.children = @ \o [i \in 1..k |-> <<>>],
              !.cache = @ \o [i \in 1..k |-> NoIdx]]

Fresh(g, k) == [i \in 1..k |-> Len(g.nodes) + i]

\* tuples of distinct existing nodes, of length at most k
Tuples(S, k) ==
    UNION {{t \in [1..l -> S] : \A i, j \in 1..l : i # j => t[i] # t[j]} : l \in 0..k}

InitTree ==
    /\ \E shape \in StageLists(MaxInitNodes) : InitGraph(shape)
    /\ lastOp = "init"
    /\ nmut = 0
    /\ IdleOptions
    /\ IdleCompile
    /\ IdleBuild

CanMutate == nmut < MaxMutations

\* nodes offered to node p as new children: the nodes constructed with p as
\* parent, and one node constructed with another parent (p itself)
Offered(p) == {n \in Nodes : nodes[n].parent = p} \cup {p}

\* node.children = new / node.set_children(new, quiet)
DoSetChildrenWith(quiets) ==
    /\ CanMutate
    /\ \E p \in Nodes, quiet \in quiets :
       \E new \in Tuples(Offered(p), MaxNew) :
          /\ Commit(SetChildren(G, p, new, quiet),
                    IF quiet THEN "set_children_quiet" ELSE "set_children")
          /\ rootMap' = rootMap
          /\ nmut' = nmut + 1
          /\ UNCHANGED <<optVars, compVars, buildVars>>

DoSetChildren == DoSetChildrenWith(BOOLEAN)

\* node.children = new / node.set_children(new)
DoAssignChildren == DoSetChildrenWith({FALSE})

\* node.add_children(add) with newly made children
DoAddChildren ==
    /\ CanMutate
    /\ \E p \in Nodes, k \in 1..MaxNew :
          /\ Len(nodes) + k <= MaxNodes
          /\ nodes[p].rank < LeafRank
          /\ Commit(AddChildren(WithFresh(G, p, k), p, Fresh(G, k)), "add_children")
          /\ rootMap' = rootMap
          /\ nmut' = nmut + 1
          /\ UNCHANGED <<optVars, compVars, buildVars>>

\* node.replace_child(index, new) with newly made children
DoReplaceChild ==
    /\ CanMutate
    /\ \E p \in Nodes, k \in 0..MaxNew :
       \E index \in 0..(Len(children[p]) - 1) :
          /\ Len(nodes) + k <= MaxNodes
          /\ nodes[p].rank < LeafRank
          /\ Commit(ReplaceChild(WithFresh(G, p, k), p, index, Fresh(G, k)),
                    "replace_child")
          /\ rootMap' = rootMap
          /\ nmut' = nmut + 1
          /\ UNCHANGED <<optVars, compVars, buildVars>>

\* node.clear_children()
DoClearChildren ==
    /\ CanMutate
    /\ \E p \in Nodes :
          /\ children[p] # <<>>
          /\ Commit(ClearChildren(G, p), "clear_children")
          /\ rootMap' = rootMap
          /\ nmut' = nmut + 1
          /\ UNCHANGED <<optVars, compVars, buildVars>>

\* root.map
ReadMap ==
    /\ LET v == ValidateMap(nodes, children, idxCache, rootMap, mutated)
       IN  /\ rootMap' = v.map
           /\ mutated' = v.mutated
           /\ idxCache' = v.cache
    /\ err' = "ok"
    /\ lastOp' = "map"
    /\ UNCHANGED <<nodes, children, nmut>>
    /\ UNCHANGED <<optVars, compVars, buildVars>>

NextTree ==
    \/ DoSetChildren
    \/ DoAddChildren
    \/ DoReplaceChild
    \/ DoClearChildren
    \/ ReadMap

SpecTree == InitTree /\ [][NextTree]_vars

\* the tree model with only the mutations that register at the root
NextTreeRegistered ==
    \/ DoAssignChildren
    \/ DoAddChildren
    \/ DoReplaceChild
    \/ ReadMap

SpecTreeRegistered == InitTree /\ [][NextTreeRegistered]_vars

-----------------------------------------------------------------------------
(* The resolver model: a constructed graph, the task resolution pass, and  *)
(* map reads                                                               *)

InitResolve ==
    /\ \E shape \in StageLists(MaxUserNodes) : InitGraph(shape)
    /\ lastOp = "init"
    /\ nmut = 0
    /\ IdleOptions
    /\ IdleCompile
    /\ IdleBuild

\* TaskResolver.resolve(user_graph, graph=True)
Resolve ==
    /\ lastOp = "init"
    /\ LET v == ValidateMap(nodes, children, idxCache, rootMap, mutated)
           g0 == [nodes |-> nodes, children |-> children, cache |-> v.cache,
                  mutated |-> v.mutated, err |-> "ok"]
           order == [i \in 1..Len(v.map) |-> v.map[i].node]
       IN  /\ Commit(ResolveAll(g0, order), "resolve")
           /\ rootMap' = v.map
    /\ UNCHANGED nmut
    /\ UNCHANGED <<optVars, compVars, buildVars>>

NextResolve ==
    \/ Resolve
    \/ ReadMap

SpecResolve == InitResolve /\ [][NextResolve]_vars

-----------------------------------------------------------------------------
(* Predefined Tasks: builder/taskresolver.py inline and                    *)
(* graph_compiler/taskresolver.py resolve                                  *)

\* the predefined templates handed to the TaskResolver: name -> number of
\* routines of the template
PredefTasks == [n \in {"t1"} |-> 1]

\* the template names a Task of the input may reference
TaskNames == {"t1", "missing"}

\* the inlined Task of _inline_evolution / _inline_regular: a Task node made
\* from the template's options, with the routine children its constructor
\* makes from options["routines"], typed by processor.process
InlinedTask(g, task, ty) ==
    LET parent == g.nodes[task].parent
        t == Len(g.nodes) + 1
        k == PredefTasks[g.nodes[task].name]
        routs == [i \in 1..k |-> t + i]
    IN  [g EXCEPT !.nodes = Append(@, [NewNode(parent, TaskRank, t) EXCEPT
                                          !.type = ty, !.decl = routs])
                              \o [i \in 1..k |-> NewNode(t, LeafRank, t + i)],
                  !.children = Append(@, routs) \o [i \in 1..k |-> <<>>],
                  !.cache = Append(@, NoIdx) \o [i \in 1..k |-> NoIdx]]

\* parent.replace_child(task_node.ID.local, (inlined_task,))
ReplaceByInlined(g, g1, task) ==
    LET g2 == [g1 EXCEPT !.cache = CacheAfterID(g1.nodes, g1.children, g1.cache, task)]
    IN  IF ~IDDefined(g1.nodes, g1.children, g1.cache, task)
        THEN [g2 EXCEPT !.err = "IndexError"]
        ELSE ReplaceChild(g2, g.nodes[task].parent,
                 GetChildrenIndex(g1.nodes, g1.children, g1.cache, task),
                 <<Len(g.nodes) + 1>>)

\* TaskResolver._inline_evolution / _inline_regular: the lookup
\* self._predef_tasks[taskname] comes first
InlinePredefined(g, task) ==
    IF g.nodes[task].name \notin DOMAIN PredefTasks
    THEN [g EXCEPT !.err = "KeyError"]
    ELSE ReplaceByInlined(g, InlinedTask(g, task, "default"), task)

\* TaskResolver.inline(task_node) of the builder on one node
InlineNode(g, n) ==
    IF g.nodes[n].rank # TaskRank THEN g
    ELSE IF g.nodes[n].type \in {"predefined-evolution", "predefined-regular"}
    THEN InlinePredefined(g, n)
    ELSE g

\* TaskResolver._resolve_predefined of graph_compiler: the node is made from
\* self._predef_tasks[task_node.options["task_name"]] and is not processed
ResolvePredefined(g, task) ==
    IF g.nodes[task].name \notin DOMAIN PredefTasks
    THEN [g EXCEPT !.err = "KeyError"]
    ELSE ReplaceByInlined(g, InlinedTask(g, task, "none"), task)

\* TaskResolver.resolve(task_node) of graph_compiler on one node
ResolveNodeGC(g, n) ==
    IF g.nodes[n].rank # TaskRank THEN [g EXCEPT !.err = "TaskResolverError"]
    ELSE IF g.nodes[n].type = "default" THEN ResolveDefault(g, n)
    ELSE IF g.nodes[n].type = "predefined" THEN ResolvePredefined(g, n)
    ELSE [g EXCEPT !.err = "TaskResolverError"]

\* a constructed graph whose childless Tasks may be predefined Tasks
PredefinedTypes == {"predefined-evolution", "predefined-regular", "predefined"}

WithPredefined(g, mark) ==
    [g EXCEPT !.nodes =
        [n \in 1..Len(g.nodes) |->
            IF n \in DOMAIN mark /\ mark[n] # <<>>
            THEN [name |-> mark[n][2]] @@ [g.nodes[n] EXCEPT !.type = mark[n][1]]
            ELSE g.nodes[n]]]

ChildlessTasks(g) ==
    {n \in 1..Len(g.nodes) : g.nodes[n].rank = TaskRank /\ g.children[n] = <<>>}

InitInline ==
    /\ \E shape \in StageLists(MaxInitNodes) :
          LET g == Construct(shape)
          IN  \E mark \in [ChildlessTasks(g) ->
                              {<<>>} \cup (PredefinedTypes \X TaskNames)] :
                LET g1 == WithPredefined(g, mark)
                    ca0 == [n \in 1..Len(g1.nodes) |-> NoIdx]
                IN  /\ nodes = g1.nodes
                    /\ children = g1.children
                    /\ idxCache = CacheAfterLocalMap(g1.nodes, g1.children, ca0, Root)
                    /\ rootMap = LocalMap(g1.nodes, g1.children, ca0, Root)
    /\ mutated = {}
    /\ err = "ok"
    /\ lastOp = "init"
    /\ nmut = 0
    /\ IdleOptions
    /\ IdleCompile
    /\ IdleBuild

\* the nodes a resolver can be called on: the nodes of the graph
Attached == Range(It(nodes, children, Root))

\* builder: taskresolver.inline(node)
DoInline ==
    /\ err = "ok"
    /\ CanMutate
    /\ \E n \in Attached :
          /\ Commit(InlineNode(G, n), <<"inline", n>>)
          /\ rootMap' = rootMap
    /\ nmut' = nmut + 1
    /\ UNCHANGED <<optVars, compVars, buildVars>>

\* graph_compiler: taskresolver.resolve(node)
DoResolveGC ==
    /\ err = "ok"
    /\ CanMutate
    /\ \E n \in Attached :
          /\ nodes[n].rank = TaskRank
          /\ Commit(ResolveNodeGC(G, n), <<"resolve", n>>)
          /\ rootMap' = rootMap
    /\ nmut' = nmut + 1
    /\ UNCHANGED <<optVars, compVars, buildVars>>

NextInline == DoInline \/ DoResolveGC

SpecInline == InitInline /\ [][NextInline]_vars

-----------------------------------------------------------------------------
(* graph/spec.py with builder/graph_classes/user_spec.py: option schemas   *)

RoutineOptional ==
    {"args", "description", "kwargs", "live_tracking", "store", "store_token", "tag"}

NoOptions == [mand |-> {}, mandex |-> <<>>, opt |-> {}, optex |-> <<>>]

\* USER_GRAPH_CONFIG_DICT["ranks"]: the option groups of every (rank, type)
UserSchemas ==
    (<<"Schedule", "default">> :>
        [NoOptions EXCEPT !.mand = {"stages"}, !.opt = {"global_options", "start_time"}])
    @@ (<<"Stage", "regular">> :>
        [NoOptions EXCEPT !.opt = {"global_options", "tasks"}])
    @@ (<<"Stage", "evolution">> :>
        [NoOptions EXCEPT !.mand = {"propagation_time"},
                          !.opt = {"global_options", "monitoring", "tasks"},
                          !.optex = <<{"monitoring_stepsize", "monitoring_numsteps"}>>])
    @@ (<<"Task", "default">> :>
        [NoOptions EXCEPT !.opt = {"global_options", "routines"}])
    @@ (<<"Task", "predefined">> :>
        [NoOptions EXCEPT !.mand = {"name"}])
    @@ (<<"Routine", "regular">> :>
        [NoOptions EXCEPT !.mand = {"routine_name"}, !.opt = RoutineOptional])
    @@ (<<"Routine", "evolution">> :>
        [NoOptions EXCEPT !.mand = {"routine_name"},
                          !.mandex = <<{"time", "localtime"}>>,
                          !.opt = RoutineOptional])
    @@ (<<"Routine", "monitoring">> :>
        [NoOptions EXCEPT !.mand = {"routine_name"}, !.opt = RoutineOptional \ {"tag"}])
    @@ (<<"Routine", "propagation">> :>
        [NoOptions EXCEPT !.mand = {"step"}, !.opt = {"TYPE"}])

\* ExclusiveOptionsABC.data: the keys of the groups
GroupKeys(groups) == UNION {groups[i] : i \in 1..Len(groups)}

\* NodeOptions.keys(): the keys of the four option groups
SchemaKeys(sc) == sc.mand \cup GroupKeys(sc.mandex) \cup sc.opt \cup GroupKeys(sc.optex)

\* NodeOptions.nonexclusive_keys without the mandatory keys
NonexclusiveKeysNoMandatory(sc) == sc.opt \cup {"type"}

\* NodeOptions.nonexclusive_keys
NonexclusiveKeys(sc) == sc.mand \cup sc.opt \cup {"type"}

\* NodeOptions.exclusive_keygroups
ExclusiveKeygroups(sc) == sc.mandex \o sc.optex

\* A value is modelled by what _verify_option asks of it: "kind_ok" is an
\* instance of the accepted types, "default" equals the schema default without
\* being such an instance, "kind_bad" is neither.
\* MandatoryOptions._verify_option / MandatoryExclusiveOptions._verify_option
VerifyMandatoryOption(val) == val = "kind_ok"

\* OptionalOptions._verify_option / OptionalExclusiveOptions._verify_option
VerifyOptionalOption(val) == val = "default" \/ VerifyMandatoryOption(val)

\* NodeOptions.check: "ok", or the NodeConfigurationError it raises
Check(sc, opts) ==
    LET keys == DOMAIN opts
    IN  IF \/ \E k \in keys \cap (sc.mand \cup GroupKeys(sc.mandex)) :
                 ~VerifyMandatoryOption(opts[k])
           \/ \E k \in keys \cap (sc.opt \cup GroupKeys(sc.optex)) :
                 ~VerifyOptionalOption(opts[k])
        THEN [ok |-> FALSE, error |-> "invalid type",
              names |-> {k \in keys \cap SchemaKeys(sc) :
                           IF k \in sc.mand \cup GroupKeys(sc.mandex)
                           THEN ~VerifyMandatoryOption(opts[k])
                           ELSE ~VerifyOptionalOption(opts[k])}]
        ELSE IF (keys \ SchemaKeys(sc)) \ {"type"} # {}
        THEN [ok |-> FALSE, error |-> "unknown keys",
              names |-> (keys \ SchemaKeys(sc)) \ {"type"}]
        ELSE [ok |-> TRUE, error |-> "none", names |-> {}]

\* the groups verify reports: no key of the group is in the option map
MissingGroups(sc, opts) ==
    {ExclusiveKeygroups(sc)[i] : i \in
        {j \in 1..Len(ExclusiveKeygroups(sc)) :
            ExclusiveKeygroups(sc)[j] \cap DOMAIN opts = {}}}

\* NodeOptions.verify: "ok", or the NodeConfigurationError it raises; names
\* are the keys its message lists
Verify(sc, opts) ==
    LET c == Check(sc, opts)
        nonex_miss == NonexclusiveKeys(sc) \ DOMAIN opts
        ex_miss == MissingGroups(sc, opts)
    IN  IF ~c.ok THEN c
        ELSE IF nonex_miss = {} /\ ex_miss = {}
        THEN [ok |-> TRUE, error |-> "none", names |-> {}]
        ELSE [ok |-> FALSE, error |-> "missing",
              names |-> nonex_miss \cup UNION ex_miss]

-----------------------------------------------------------------------------
(* The options model: verify applied to the option map of a typed node     *)

\* the keys an option map can hold for a schema: those of the schema, the
\* node's type entry and a key the schema does not know
OfferedKeys(sc) == SchemaKeys(sc) \cup {"type", "bogus"}

\* the option maps offered to verify: every key of the schema, "type" and
\* possibly "bogus", with at most MaxRemoved keys left out; the values are of
\* an accepted kind but for at most one
OptionMaps(sc) ==
    LET full == SchemaKeys(sc) \cup {"type"}
        keysets == {K \in SUBSET OfferedKeys(sc) : Cardinality(full \ K) <= MaxRemoved}
        tags(k) == IF k \in sc.opt \cup GroupKeys(sc.optex)
                   THEN {"default", "kind_bad"} ELSE {"kind_bad"}
    IN  UNION {
          {[k \in K |-> "kind_ok"]}
          \cup UNION {{[k \in K |-> IF k = odd THEN t ELSE "kind_ok"] : t \in tags(odd)}
                      : odd \in K \ {"type"}}
          : K \in keysets}

InitOptions ==
    /\ vSchema \in DOMAIN UserSchemas
    /\ vOpts \in OptionMaps(UserSchemas[vSchema])
    /\ vResult = NotVerified
    /\ IdleTree
    /\ IdleCompile
    /\ IdleBuild

\* spec.options.verify(node.options.local)
DoVerify ==
    /\ vResult = NotVerified
    /\ vResult' = Verify(UserSchemas[vSchema], vOpts)
    /\ UNCHANGED <<vSchema, vOpts>>
    /\ UNCHANGED <<treeVars, compVars, buildVars>>

NextOptions == DoVerify

SpecOptions == InitOptions /\ [][NextOptions]_vars

-----------------------------------------------------------------------------
(* graph/spec.py: the type of a node, get_specification and set_type       *)
(* A graph is the record g of the tree model; o gives, for every label,    *)
(* the option dict that the nodes with this label share.                   *)

\* USER_GRAPH_CONFIG_DICT["hierarchy"]
RankName(rank) ==
    IF rank = -1 THEN "NONE" ELSE <<"Schedule", "Stage", "Task", "Routine">>[rank + 1]

\* GraphSpecification.ranks[rankname].types.keys()
TypesOf(rankname) == {k[2] : k \in {x \in DOMAIN UserSchemas : x[1] = rankname}}

\* USER_GRAPH_CONFIG_DICT["allowed_children"]: for a (rank, type) the type
\* names allowed for every rank of child; str marks an entry written as
\* one string, ("regular"), instead of a tuple of strings
AllowedChildren ==
    (<<"NONE", "NONE">> :> [Schedule |-> [str |-> FALSE, names |-> {"default"}]])
    @@ (<<"Schedule", "default">> :>
        [Stage |-> [str |-> FALSE, names |-> {"regular", "evolution"}],
         Task |-> [str |-> FALSE, names |-> {"default"}],
         Routine |-> [str |-> FALSE, names |-> {"regular"}]])
    @@ (<<"Stage", "regular">> :>
        [Task |-> [str |-> FALSE, names |-> {"default", "predefined"}],
         Routine |-> [str |-> TRUE, names |-> {"regular"}]])
    @@ (<<"Stage", "evolution">> :>
        [Task |-> [str |-> FALSE, names |-> {"default", "predefined"}],
         Routine |-> [str |-> FALSE, names |-> {"evolution", "monitoring", "propagation"}]])
    @@ (<<"Task", "default">> :>
        [Task |-> [str |-> FALSE, names |-> {"default", "predefined"}],
         Routine |-> [str |-> FALSE, names |-> {"evolution", "regular"}]])

\* the (rank, type) whose allowed_children is the empty tuple ()
AllowedIsTuple(rankname, typename) ==
    rankname = "Routine" \/ <<rankname, typename>> = <<"Task", "predefined">>

\* set(parent_typenames): of a tuple its elements, of a string its characters
SetOfNames(entry) ==
    IF entry.str THEN {"r", "e", "g", "u", "l", "a"} ELSE entry.names

\* GraphNode.type is not None: the option dict has the key "type"
HasTypeNever(local) == FALSE

HasType(local) == "type" \in DOMAIN local

\* GraphNode.type
TypeOf(local) == IF HasType(local) THEN local["type"] ELSE "none"

\* get_specification, lines 346-360: the types whose check rejects the
\* options, and the types for which a mandatory key or a key of a
\* mandatory-exclusive group is not given
ImpossibleTypenames(rankname, local) ==
    {t \in TypesOf(rankname) : ~Check(UserSchemas[<<rankname, t>>], local).ok}

IncompleteTypenames(rankname, local) ==
    {t \in TypesOf(rankname) :
        LET sc == UserSchemas[<<rankname, t>>]
        IN  (sc.mand \cup GroupKeys(sc.mandex)) \ DOMAIN local # {}}

\* get_specification, lines 367-392, once the parent's specification is
\* known: [error, types]; more than one type is the tuple it returns
NarrowByParent(rankname, local, parentrank, parenttype) ==
    LET possible == TypesOf(rankname) \ ImpossibleTypenames(rankname, local)
        allowed == AllowedChildren[<<parentrank, parenttype>>]
        narrowed == possible \cap SetOfNames(allowed[rankname])
        complete == IF Cardinality(narrowed) > 1
                    THEN narrowed \ IncompleteTypenames(rankname, local)
                    ELSE narrowed
    IN  IF AllowedIsTuple(parentrank, parenttype)
        THEN [error |-> "TypeError", types |-> {}]
        ELSE IF rankname \notin DOMAIN allowed
        THEN [error |-> "NodeConfigurationError", types |-> {}]
        ELSE IF narrowed = {} \/ complete = {}
        THEN [error |-> "NodeConfigurationError", types |-> {}]
        ELSE [error |-> "ok", types |-> complete]

\* NodeConfigurationProcessor.get_specification(node): [error, types]
RECURSIVE GetSpecification(_, _, _)
GetSpecification(g, o, n) ==
    IF n = NoNode THEN [error |-> "ok", types |-> {"NONE"}]
    ELSE
    LET rankname == RankName(g.nodes[n].rank)
        local == o[g.nodes[n].label]
        parent == g.nodes[n].parent
        parentspec == GetSpecification(g, o, parent)
        parentrank == IF parent = NoNode THEN "NONE" ELSE RankName(g.nodes[parent].rank)
    IN  IF HasType(local)
        THEN IF local["type"] \in TypesOf(rankname)
             THEN [error |-> "ok", types |-> {local["type"]}]
             ELSE [error |-> "KeyError", types |-> {}]
        ELSE IF TypesOf(rankname) \ ImpossibleTypenames(rankname, local) = {}
        THEN [error |-> "NodeConfigurationError", types |-> {}]
        ELSE IF parentspec.error # "ok" THEN parentspec
        ELSE IF Cardinality(parentspec.types) # 1
        THEN [error |-> "AttributeError", types |-> {}]
        ELSE NarrowByParent(rankname, local, parentrank,
                            CHOOSE t \in parentspec.types : TRUE)

\* GraphNode.type setter: options.local["type"] = new, ValueError when the
\* node has a type
AssignType(o, label, new) ==
    IF HasType(o[label]) THEN [error |-> "ValueError", opts |-> o]
    ELSE [error |-> "ok", opts |-> [o EXCEPT ![label] = ("type" :> new) @@ @]]

\* NodeConfigurationProcessor.set_type(node): [error, opts]
SetType(g, o, n) ==
    LET spec == GetSpecification(g, o, n)
    IN  IF spec.error # "ok" THEN [error |-> spec.error, opts |-> o]
        ELSE IF Cardinality(spec.types) > 1
        THEN [error |-> "NodeConfigurationError", opts |-> o]
        ELSE IF ~HasType(o[g.nodes[n].label])
        THEN AssignType(o, g.nodes[n].label, CHOOSE t \in spec.types : TRUE)
        ELSE [error |-> "ok", opts |-> o]

\* set_type(node, graph=True): set_type on the values of the map, in order,
\* up to the first that raises
RECURSIVE SetTypeAll(_, _, _)
SetTypeAll(g, o, order) ==
    IF order = <<>> THEN [error |-> "ok", opts |-> o]
    ELSE CHOOSE res \in {IF r.error # "ok" THEN r ELSE SetTypeAll(g, r.opts, Tail(order))
                          : r \in {SetType(g, o, Head(order))}} : TRUE

\* the graph with every node's type read from its option dict
Typed(g, o) ==
    [g EXCEPT !.nodes = [n \in 1..Len(g.nodes) |->
                            [g.nodes[n] EXCEPT !.type = TypeOf(o[g.nodes[n].label])]]]

-----------------------------------------------------------------------------
(* The typing model: a constructed user graph whose nodes carry option     *)
(* dicts, under set_type on one node and over the whole graph              *)

\* the option dicts a node of the input can be made from
NodeDicts(g, n) ==
    LET rank == g.nodes[n].rank
        tasks == IF g.children[n] = <<>> THEN <<>> ELSE [tasks |-> "kind_ok"]
    IN  IF rank = 0 THEN {[stages |-> "kind_ok"]}
        ELSE IF rank = 1
        THEN {tasks @@ d : d \in
                {<<>>, [propagation_time |-> "kind_ok"], [type |-> "regular"],
                 [propagation_time |-> "kind_ok", monitoring_numsteps |-> "kind_ok"],
                 [type |-> "evolution", propagation_time |-> "kind_ok"],
                 [bogus |-> "kind_ok"]}}
        ELSE IF rank = TaskRank
        THEN {[routines |-> "kind_ok"], [type |-> "default", routines |-> "kind_ok"]}
              \cup (IF g.children[n] = <<>> THEN {[name |-> "kind_ok"]} ELSE {})
        ELSE {[routine_name |-> "kind_ok"],
              [routine_name |-> "kind_ok", time |-> "kind_ok"],
              [routine_name |-> "kind_ok", type |-> "evolution"],
              [step |-> "kind_ok", type |-> "propagation"]}

\* the option dicts of the first k nodes, by label
RECURSIVE GraphDicts(_, _)
GraphDicts(g, k) ==
    IF k = 0 THEN {<<>>}
    ELSE {Append(o, d) : o \in GraphDicts(g, k - 1), d \in NodeDicts(g, k)}

\* UserGraphRoot(options) with the option dict of every node chosen
InitUserGraph(bound) ==
    \E shape \in StageLists(bound) :
        LET g == Construct(shape)
        IN  \E o \in GraphDicts(g, Len(g.nodes)) :
                /\ LET ca0 == [n \in 1..Len(g.nodes) |-> NoIdx]
                   IN
                    /\ nodes = Typed(g, o).nodes
                    /\ children = g.children
                    /\ idxCache = CacheAfterLocalMap(g.nodes, g.children, ca0, Root)
                    /\ rootMap = LocalMap(g.nodes, g.children, ca0, Root)
                    /\ mutated = {}
                    /\ err = "ok"
                    /\ optDicts = o
                    /\ given = [nodes |-> Typed(g, o).nodes, children |-> g.children,
                                opts |-> o]

InitType ==
    /\ InitUserGraph(MaxInitNodes)
    /\ lastOp = <<"init", "graph">>
    /\ nmut = 0
    /\ passes = <<>>
    /\ built = <<>>
    /\ IdleOptions
    /\ IdleCompile

\* the graph record of the current state, and the order of "for ch in node"
CurrentGraph == [nodes |-> nodes, children |-> children]

\* processor.set_type(node)
DoSetType ==
    /\ err = "ok"
    /\ \E n \in 1..Len(nodes) :
        LET r == SetType(CurrentGraph, optDicts, n)
        IN  /\ optDicts' = r.opts
            /\ err' = r.error
            /\ nodes' = Typed(CurrentGraph, r.opts).nodes
            /\ lastOp' = <<"set_type", "node">>
    /\ UNCHANGED <<children, idxCache, rootMap, mutated, nmut>>
    /\ UNCHANGED <<passes, given, built>>
    /\ UNCHANGED <<optVars, compVars>>

\* processor.set_type(root, graph=True)
DoSetTypePass ==
    /\ err = "ok"
    /\ Len(passes) < MaxPasses
    /\ LET v == ValidateMap(nodes, children, idxCache, rootMap, mutated)
           order == [i \in 1..Len(v.map) |-> v.map[i].node]
           r == SetTypeAll(CurrentGraph, optDicts, order)
       IN  /\ optDicts' = r.opts
           /\ err' = r.error
           /\ nodes' = Typed(CurrentGraph, r.opts).nodes
           /\ passes' = IF r.error = "ok" THEN Append(passes, "set_type") ELSE passes
           /\ rootMap' = v.map
           /\ idxCache' = v.cache
           /\ mutated' = v.mutated
    /\ lastOp' = <<"set_type", "graph">>
    /\ UNCHANGED <<children, nmut, given, built>>
    /\ UNCHANGED <<optVars, compVars>>

NextType ==
    \/ DoSetType
    \/ DoSetTypePass

SpecType == InitType /\ [][NextType]_vars

-----------------------------------------------------------------------------
(* The type of a node under the type setter and under                      *)
(* preprocessor/core.py process_routines                                   *)

\* GraphNode.type setter, lines 327-333: [error, opts]; the specification
\* is looked up after the type is written
TypeSetter(g, o, n, new) ==
    LET r == AssignType(o, g.nodes[n].label, new)
    IN  IF r.error # "ok" THEN r
        ELSE IF new \notin TypesOf(RankName(g.nodes[n].rank))
        THEN [r EXCEPT !.error = "KeyError"]
        ELSE r

\* GraphNode.leafs
RECURSIVE NodeLeafs(_, _)
NodeLeafs(g, n) ==
    IF g.nodes[n].rank + 1 = LeafRank THEN g.children[n]
    ELSE Concat([i \in 1..Len(g.children[n]) |-> NodeLeafs(g, g.children[n][i])])

\* routine._options[key] = value for every routine of the sequence
WriteAll(o, g, routines, key, value) ==
    [l \in DOMAIN o |->
        IF \E i \in 1..Len(routines) : g.nodes[routines[i]].label = l
        THEN (key :> value) @@ o[l]
        ELSE o[l]]

\* preprocessor/stage.py process_evolution, lines 16-18: the stage's
\* propagation_time and the root's start_time are read before anything is
\* written; the roots of this model have no start_time, which only option
\* completion writes
ProcessEvolutionReads(g, o, stage) ==
    IF "propagation_time" \notin DOMAIN o[g.nodes[stage].label] THEN "KeyError"
    ELSE IF "start_time" \notin DOMAIN o[g.nodes[Root].label] THEN "KeyError"
    ELSE "ok"

\* NodeOptionsProcessor.process_routines on the node it is set up for:
\* [error, opts]
ProcessRoutinesOf(g, o, n) ==
    IF g.nodes[n].rank = 0
    THEN [error |-> "ok", opts |-> WriteAll(o, g, NodeLeafs(g, n), "tag", "kind_ok")]
    ELSE IF g.nodes[n].rank = 1 /\ TypeOf(o[g.nodes[n].label]) = "evolution"
    THEN [error |-> ProcessEvolutionReads(g, o, n),
          opts |-> WriteAll(o, g, NodeLeafs(g, n), "type", "evolution")]
    ELSE [error |-> "ok", opts |-> o]

InitProcess == InitType

\* node.type = new
DoTypeSetter ==
    /\ nmut < MaxMutations
    /\ \E n \in 1..Len(nodes), new \in {"default", "regular", "evolution"} :
        LET r == TypeSetter(CurrentGraph, optDicts, n, new)
        IN  /\ optDicts' = r.opts
            /\ err' = r.error
            /\ nodes' = Typed(CurrentGraph, r.opts).nodes
            /\ lastOp' = <<"type", ToString(n)>>
    /\ nmut' = nmut + 1
    /\ UNCHANGED <<children, idxCache, rootMap, mutated>>
    /\ UNCHANGED <<passes, given, built>>
    /\ UNCHANGED <<optVars, compVars>>

\* processor.process_routines() with processor._node = n
DoProcessRoutines ==
    /\ nmut < MaxMutations
    /\ \E n \in 1..Len(nodes) :
        LET r == ProcessRoutinesOf(CurrentGraph, optDicts, n)
        IN  /\ optDicts' = r.opts
            /\ err' = r.error
            /\ nodes' = Typed(CurrentGraph, r.opts).nodes
            /\ lastOp' = <<"process_routines", ToString(n)>>
    /\ nmut' = nmut + 1
    /\ UNCHANGED <<children, idxCache, rootMap, mutated>>
    /\ UNCHANGED <<passes, given, built>>
    /\ UNCHANGED <<optVars, compVars>>

NextProcess ==
    \/ DoSetTypePass
    \/ DoTypeSetter
    \/ DoProcessRoutines

SpecProcess == InitProcess /\ [][NextProcess]_vars

-----------------------------------------------------------------------------
(* numpy as the stage compilers use it, on integer times                   *)

\* np.unique of a set of times: ascending, without repetition
RECURSIVE Unique(_)
Unique(S) ==
    IF S = {} THEN <<>>
    ELSE LET m == CHOOSE x \in S : \A y \in S : x <= y
         IN  <<m>> \o Unique(S \ {m})

\* np.linspace(start, stop, num, endpoint=True); the division is exact for
\* every stage the model offers (see GridExact)
Linspace(start, stop, num) ==
    IF num = 1 THEN <<start>>
    ELSE [i \in 1..num |-> start + ((i - 1) * (stop - start)) \div (num - 1)]

\* np.arange(start, stop, step): start, start + step, ... below stop
Arange(start, stop, step) ==
    [i \in 1..((stop - start + step - 1) \div step) |-> start + (i - 1) * step]

\* np.diff
Diff(ts) == [i \in 1..(Len(ts) - 1) |-> ts[i + 1] - ts[i]]

-----------------------------------------------------------------------------
(* preprocessor/stage.py: evolution stages of the user graph               *)

\* process_evolution.propagation_routine
propagation_routine(timestep) == [type |-> "propagation", step |-> timestep]

\* _get_monitoring_options: the monitoring templates, typed "monitoring"
GetMonitoringOptions(stage) ==
    [i \in 1..stage.monitoring |-> [type |-> "monitoring", routine_name |-> i]]

\* _get_numsteps: the number of monitoring times, 0 with "UnboundLocalError"
\* when the stage gives neither a step size nor a number of steps
GetNumsteps(options) ==
    IF "monitoring_stepsize" \in DOMAIN options
    THEN [error |-> "ok",
          value |-> (options["propagation_time"] \div options["monitoring_stepsize"]) + 1]
    ELSE IF "monitoring_numsteps" \in DOMAIN options
    THEN [error |-> "ok", value |-> options["monitoring_numsteps"]]
    ELSE [error |-> "UnboundLocalError", value |-> 0]

\* GraphNode.leafs of a stage: the routines of its Tasks, in order
Leafs(stage) == Concat(stage.tasks)

\* _get_extra_routine_times over the leafs from index i on
RECURSIVE ExtraRoutineTimesFrom(_, _, _, _, _)
ExtraRoutineTimesFrom(start_time, stop_time, leafs, i, last_rout_time) ==
    IF i > Len(leafs) THEN [error |-> "ok", times |-> <<>>]
    ELSE LET routine_time == leafs[i].time
         IN  IF ~(start_time <= routine_time /\ routine_time <= stop_time)
             THEN [error |-> "StageProcessingError", times |-> <<>>]
             ELSE IF i > 1 /\ routine_time < last_rout_time
             THEN [error |-> "StageProcessingError", times |-> <<>>]
             ELSE LET rest == ExtraRoutineTimesFrom(start_time, stop_time, leafs,
                                                    i + 1, routine_time)
                  IN  [error |-> rest.error, times |-> <<routine_time>> \o rest.times]

\* _get_extra_routine_times
GetExtraRoutineTimes(start_time, stop_time, stage) ==
    LET r == ExtraRoutineTimesFrom(start_time, stop_time, Leafs(stage), 1, 0)
    IN  [error |-> r.error, times |-> <<start_time>> \o r.times]

\* _make_timesteps_gen: the times the generator yields
MakeTimesteps(ext_rout_times, mon_time_arr) ==
    Unique(Range(ext_rout_times) \cup Range(mon_time_arr))

\* next(tsteps)
NextTstep(st, tsteps) ==
    IF st.pos < Len(tsteps)
    THEN [st EXCEPT !.pos = @ + 1, !.time = tsteps[st.pos + 1]]
    ELSE [st EXCEPT !.error = "StopIteration"]

\* every routine is put into the first Task
EmitFirst(st, task, routs) == [st EXCEPT !.dict[1] = @ \o routs]

\* new_routines_dict[task.ID] += routs
Emit(st, task, routs) == [st EXCEPT !.dict[task] = @ \o routs]

\* _make_new_routines_dict, lines 142-145: the propagation routine of the
\* while loop
PropagateInLoop(st, task) ==
    IF ~st.first_loop /\ st.prior_time # st.time
    THEN [Emit(st, task, <<propagation_routine(st.time - st.prior_time)>>)
             EXCEPT !.monitoring = TRUE]
    ELSE st

\* _make_new_routines_dict, lines 146-150: the monitoring routines of the
\* while loop and the end of its turn
MonitorInLoop(st, task, mon_routs, mon_rout_times) ==
    [(IF st.time \in Range(mon_rout_times) /\ st.monitoring
      THEN Emit(st, task, mon_routs) ELSE st)
        EXCEPT !.monitoring = FALSE, !.first_loop = FALSE, !.prior_time = st.time]

\* _make_new_routines_dict, lines 141-151: the while loop before a routine's
\* time
RECURSIVE CatchUp(_, _, _, _, _, _)
CatchUp(st, tsteps, mon_routs, mon_rout_times, task, routine_time) ==
    IF st.error # "ok" \/ ~(st.time < routine_time) THEN st
    ELSE CatchUp(NextTstep(MonitorInLoop(PropagateInLoop(st, task), task,
                                         mon_routs, mon_rout_times),
                           tsteps),
                 tsteps, mon_routs, mon_rout_times, task, routine_time)

\* _make_new_routines_dict, lines 138-140: the next time is drawn when the
\* routine is later than the last time handled
Advance(st, tsteps, routine) ==
    IF routine.time > st.prior_time /\ ~st.first_loop
    THEN NextTstep(st, tsteps) ELSE st

\* _make_new_routines_dict without the propagation up to the routine
PropagateAtRoutineNever(st, task) == st

\* _make_new_routines_dict, lines 153-156: the propagation up to the routine
PropagateAtRoutine(st, task) ==
    IF st.prior_time # st.time
    THEN [Emit(st, task, <<propagation_routine(st.time - st.prior_time)>>)
             EXCEPT !.monitoring = TRUE]
    ELSE st

\* _make_new_routines_dict without the monitoring at the routine
MonitorAtRoutineNever(st, task, mon_routs, mon_rout_times) == st

\* _make_new_routines_dict, lines 157-159: the monitoring at the routine
MonitorAtRoutine(st, task, mon_routs, mon_rout_times) ==
    IF st.time \in Range(mon_rout_times) /\ st.monitoring
    THEN [Emit(st, task, mon_routs) EXCEPT !.monitoring = FALSE]
    ELSE st

\* _make_new_routines_dict, lines 160-162: the routine itself
AddRoutine(st, task, routine) ==
    [Emit(st, task, <<routine>>) EXCEPT !.prior_time = st.time,
                                        !.first_loop = FALSE]

\* _make_new_routines_dict: the body of the loop over a Task's routines
PlaceRoutine(st, tsteps, mon_routs, mon_rout_times, task, routine) ==
    AddRoutine(
        MonitorAtRoutine(
            PropagateAtRoutine(
                CatchUp(Advance(st, tsteps, routine), tsteps, mon_routs,
                        mon_rout_times, task, routine.time),
                task),
            task, mon_routs, mon_rout_times),
        task, routine)

\* _make_new_routines_dict: the loops over the Tasks and their routines,
\* from routine j of Task task on; an exception ends them
RECURSIVE PlaceTasks(_, _, _, _, _, _, _)
PlaceTasks(st, tsteps, mon_routs, mon_rout_times, tasks, task, j) ==
    IF st.error # "ok" \/ task > Len(tasks) THEN st
    ELSE IF j > Len(tasks[task])
    THEN PlaceTasks(st, tsteps, mon_routs, mon_rout_times, tasks, task + 1, 1)
    ELSE PlaceTasks(PlaceRoutine(st, tsteps, mon_routs, mon_rout_times, task,
                                 tasks[task][j]),
                    tsteps, mon_routs, mon_rout_times, tasks, task, j + 1)

\* _make_new_routines_dict: remaining_routs_gen over the times not yet drawn
RECURSIVE RemainingRouts(_, _, _, _)
RemainingRouts(tsteps, pos, prior_time, mon_routs) ==
    IF pos > Len(tsteps) THEN <<>>
    ELSE <<propagation_routine(tsteps[pos] - prior_time)>> \o mon_routs
            \o RemainingRouts(tsteps, pos + 1, tsteps[pos], mon_routs)

\* _make_new_routines_dict, lines 131-135: the loop state before the loops
FirstLoop(stage, tsteps) ==
    [pos |-> 1, time |-> tsteps[1], prior_time |-> tsteps[1],
     first_loop |-> TRUE, monitoring |-> TRUE, error |-> "ok",
     dict |-> [t \in 1..Len(stage.tasks) |-> <<>>]]

\* _make_new_routines_dict, lines 164-174: the remaining times go to the
\* last Task
CreateRemaining(st, stage, tsteps, mon_routs) ==
    IF st.error # "ok" THEN st
    ELSE Emit(st, Len(stage.tasks),
              RemainingRouts(tsteps, st.pos + 1, st.prior_time, mon_routs))

\* _make_new_routines_dict: the routines of every Task of the stage
MakeNewRoutinesDict(stage, tsteps, mon_routs, mon_rout_times) ==
    CreateRemaining(
        PlaceTasks(FirstLoop(stage, tsteps), tsteps, mon_routs, mon_rout_times,
                   stage.tasks, 1, 1),
        stage, tsteps, mon_routs)

\* process_evolution, stage without Tasks: the routines of the one empty Task
RECURSIVE NoTaskRoutines(_, _, _, _)
NoTaskRoutines(tsteps, pos, prior_time, mon_routs) ==
    IF pos > Len(tsteps) THEN <<>>
    ELSE (IF prior_time # tsteps[pos]
          THEN <<propagation_routine(tsteps[pos] - prior_time)>> ELSE <<>>)
         \o mon_routs
         \o NoTaskRoutines(tsteps, pos + 1, tsteps[pos], mon_routs)

\* process_evolution: the routine appended to the last Task
ReturnState(stop_time) ==
    [routine_name |-> "_return_state", time |-> stop_time,
     store_token |-> "LAST_STATE", tag |-> "AUTOMATIC", type |-> "evolution"]

\* a stage that raised: nothing was compiled
Failed(stage, error) ==
    [type |-> stage.type, error |-> error, options |-> <<>>, start_time |-> 0,
     stop_time |-> 0, tasks |-> <<>>, routines |-> <<>>]

\* a compiled stage: its local options, the start and stop time the compiler
\* worked with, its Tasks (preprocessor) and its routines in order
Compiled(stage, options, start_time, stop_time, tasks, routines) ==
    [type |-> stage.type, error |-> "ok", options |-> options,
     start_time |-> start_time, stop_time |-> stop_time,
     tasks |-> tasks, routines |-> routines]

\* process_evolution, lines 26-30: monitoring times only with templates
MonRoutineTimes(start_time, stop_time, numsteps, monitoring_routines) ==
    IF monitoring_routines # <<>>
    THEN Linspace(start_time, stop_time, numsteps)
    ELSE <<>>

\* process_evolution, lines 40-58: the new routines of every Task
NewRoutinesDict(stage, start_time, tsteps, mon_routs, mon_rout_times) ==
    IF Len(stage.tasks) # 0
    THEN MakeNewRoutinesDict(stage, tsteps, mon_routs, mon_rout_times)
    ELSE [error |-> "ok",
          dict |-> <<NoTaskRoutines(tsteps, 1, start_time, mon_routs)>>]

\* process_evolution, lines 60-69: the Tasks get their routines, the last
\* one the terminal routine
SetRoutines(dict, stop_time) ==
    [t \in 1..Len(dict) |->
        IF t = Len(dict) THEN dict[t] \o <<ReturnState(stop_time)>> ELSE dict[t]]

\* process_evolution, lines 31-71, given the times
EvolveOver(stage, start_time, stop_time, new) ==
    IF new.error # "ok" THEN Failed(stage, new.error)
    ELSE Compiled(stage, stage.options, start_time, stop_time,
                  SetRoutines(new.dict, stop_time),
                  Concat(SetRoutines(new.dict, stop_time)))

\* process_evolution, lines 22-71, given the number of steps
EvolveWith(stage, start_time, stop_time, numsteps, extra, mon_routs) ==
    IF numsteps.error # "ok" THEN Failed(stage, numsteps.error)
    ELSE IF extra.error # "ok" THEN Failed(stage, extra.error)
    ELSE EvolveOver(stage, start_time, stop_time,
            NewRoutinesDict(stage, start_time,
                MakeTimesteps(extra.times,
                    MonRoutineTimes(start_time, stop_time, numsteps.value, mon_routs)),
                mon_routs,
                MonRoutineTimes(start_time, stop_time, numsteps.value, mon_routs)))

\* process_evolution(stage): the stage's Tasks with their new routines
process_evolution(schedule, stage) ==
    EvolveWith(stage, schedule.start_time,
               schedule.start_time + stage.options["propagation_time"],
               GetNumsteps(stage.options),
               GetExtraRoutineTimes(schedule.start_time,
                   schedule.start_time + stage.options["propagation_time"], stage),
               GetMonitoringOptions(stage))

\* NodeOptionsProcessor.process_routines on a stage: the routines of an
\* evolution stage are typed "evolution" and the stage is compiled; a regular
\* stage is left as it is
ProcessRoutines(schedule, stage) ==
    IF stage.type = "evolution"
    THEN process_evolution(schedule,
            [stage EXCEPT !.tasks =
                [t \in 1..Len(stage.tasks) |->
                    [j \in 1..Len(stage.tasks[t]) |->
                        [routine_name |-> stage.tasks[t][j].routine_name,
                         time |-> stage.tasks[t][j].time,
                         type |-> "evolution"]]]])
    ELSE Compiled(stage, stage.options, 0, 0, stage.tasks, Leafs(stage))

-----------------------------------------------------------------------------
(* builder/main.py, builder/stagecompiler.py: inter graph to run graph     *)

\* Preprocessor._get_inter_opts_stage: monitoring_numsteps of the inter stage
GetInterOptsStage(stage) ==
    IF "monitoring_numsteps" \in DOMAIN stage.options
    THEN [error |-> "ok", numsteps |-> stage.options["monitoring_numsteps"]]
    ELSE IF "monitoring_stepsize" \in DOMAIN stage.options
    THEN [error |-> "ok",
          numsteps |-> Len(Arange(0, stage.options["propagation_time"],
                                  stage.options["monitoring_stepsize"]))]
    ELSE [error |-> "UnboundLocalError", numsteps |-> 0]

\* the run-graph routine of a user routine: its options under the keys of
\* the run-graph schema, tagged "USER"; the builder also types it
UserRout(rout, typed) ==
    IF typed
    THEN [type |-> "evolution", tag |-> "USER", time |-> rout.time,
          routine_name |-> rout.routine_name]
    ELSE [tag |-> "USER", time |-> rout.time, routine_name |-> rout.routine_name]

\* the run-graph routines of the monitoring templates at one time
MonRouts(stage, time, type) ==
    [i \in 1..stage.monitoring |->
        [type |-> type, tag |-> "MONITORING", time |-> time, routine_name |-> i]]

\* usr_timetable[time]: the user routines of a time, in their order
RECURSIVE UsrTimetable(_, _, _)
UsrTimetable(usrrouts, time, typed) ==
    IF usrrouts = <<>> THEN <<>>
    ELSE (IF Head(usrrouts).time = time
          THEN <<UserRout(Head(usrrouts), typed)>> ELSE <<>>)
         \o UsrTimetable(Tail(usrrouts), time, typed)

\* prop_timetable[time]: a propagation routine for every time but the last
PropTimetable(rout_times, i) ==
    IF i < Len(rout_times)
    THEN <<[type |-> "propagation", time |-> rout_times[i],
            step |-> Diff(rout_times)[i]]>>
    ELSE <<>>

\* complete_timetable: per time the monitoring routines, the user routines
\* and the propagation routine. The builder (gc FALSE) types monitoring
\* routines "monitoring" and user routines "evolution"; graph_compiler (gc
\* TRUE) types monitoring routines "evolution", leaves user routines untyped
\* and adds every propagation routine once more in its loop over
\* prop_timetable.
CompleteTimetable(stage, usrrouts, mon_times, rout_times, gc) ==
    [i \in 1..Len(rout_times) |->
        (IF rout_times[i] \in Range(mon_times)
         THEN MonRouts(stage, rout_times[i], IF gc THEN "evolution" ELSE "monitoring")
         ELSE <<>>)
        \o UsrTimetable(usrrouts, rout_times[i], ~gc)
        \o PropTimetable(rout_times, i)
        \o (IF gc THEN PropTimetable(rout_times, i) ELSE <<>>)]

\* StageCompiler._compile_evolution (builder): compiled are the run stages
\* built so far (parent.virtual_stages)
CompileEvolution(schedule, stage, compiled) ==
    LET inter == GetInterOptsStage(stage)
        last == compiled[Len(compiled)]
        start_time == IF Len(compiled) > 0
                      THEN schedule.start_time + last.options["propagation_time"]
                      ELSE schedule.start_time
        proptime == stage.options["propagation_time"]
        stop_time == start_time + proptime
        usrrouts == Leafs(stage)
        mon_times == Linspace(start_time, stop_time, inter.numsteps)
        rout_times == Unique({usrrouts[i].time : i \in 1..Len(usrrouts)}
                             \cup Range(mon_times))
        routines == Concat(CompleteTimetable(stage, usrrouts, mon_times,
                                             rout_times, FALSE))
    IN  IF inter.error # "ok" THEN Failed(stage, inter.error)
        ELSE IF Len(compiled) > 0 /\ "propagation_time" \notin DOMAIN last.options
        THEN Failed(stage, "KeyError")
        ELSE Compiled(stage, [propagation_time |-> proptime, type |-> "evolution"],
                      start_time, stop_time, <<>>, routines)

\* RUN_GRAPH_CONFIG_DICT["ranks"]: the option groups of the run graph's
\* stages and regular routines
RunSchemas ==
    (<<"Schedule", "default">> :> [NoOptions EXCEPT !.mand = {"stages"}])
    @@ (<<"Stage", "regular">> :> NoOptions)
    @@ (<<"Stage", "evolution">> :>
        [NoOptions EXCEPT !.mand = {"propagation_time", "num_routines"}])
    @@ (<<"Routine", "regular">> :>
        [NoOptions EXCEPT !.mand = {"routine_name"} \cup RoutineOptional])

\* self._out_rout_keys["regular"]
RegularRoutineKeys == SchemaKeys(RunSchemas[<<"Routine", "regular">>])

\* StageCompiler._compile_regular (builder): the routines' options under the
\* keys of the run graph's regular routine go into the stage's options, the
\* run stage is constructed without children (RunGraphNode._post_init does
\* nothing) and verified against the run graph's schema of a regular stage
CompileRegular(stage) ==
    LET routs == Leafs(stage)
        stage_opts == [routines |-> "kind_ok", type |-> "kind_ok"]
    IN  IF \E i \in 1..Len(routs) : ~(RegularRoutineKeys \subseteq DOMAIN routs[i])
        THEN Failed(stage, "KeyError")
        ELSE IF ~Verify(RunSchemas[<<"Stage", "regular">>], stage_opts).ok
        THEN Failed(stage, "StageCompilerError")
        ELSE Compiled(stage, [type |-> "regular"], 0, 0, <<>>, <<>>)

\* StageCompiler._compile_regular (builder/intertorun): the run stage gets
\* one child per routine of the inter stage, made from the routine's options
CompileRegularI2R(stage) ==
    Compiled(stage, [type |-> "regular"], 0, 0, <<>>, Leafs(stage))

\* StageCompiler.compile (builder)
Compile(schedule, stage, compiled) ==
    IF stage.type = "regular"
    THEN CompileRegular(stage)
    ELSE CompileEvolution(schedule, stage, compiled)

\* StageCompiler._compile_evolution (graph_compiler)
CompileEvolutionGC(schedule, stage) ==
    LET start_time == schedule.start_time
        proptime == stage.options["propagation_time"]
        stop_time == start_time + proptime
        usrrouts == Leafs(stage)
        mon_times ==
            IF "monitoring_stepsize" \in DOMAIN stage.options
            THEN Arange(start_time, stop_time, stage.options["monitoring_stepsize"])
                    \o <<stop_time>>
            ELSE IF "monitoring_numsteps" \in DOMAIN stage.options
            THEN Linspace(start_time, stop_time, stage.options["monitoring_numsteps"])
            ELSE <<>>
        rout_times == Unique({usrrouts[i].time : i \in 1..Len(usrrouts)}
                             \cup Range(mon_times))
        routines == Concat(CompleteTimetable(stage, usrrouts, mon_times,
                                             rout_times, TRUE))
    IN  Compiled(stage, [propagation_time |-> proptime, type |-> "evolution"],
                 start_time, stop_time, <<>>, routines)

\* StageCompiler.compile (graph_compiler)
CompileGC(schedule, stage) ==
    IF stage.type = "regular"
    THEN CompileRegular(stage)
    ELSE CompileEvolutionGC(schedule, stage)

-----------------------------------------------------------------------------
(* The compiler model: the stages of a schedule are compiled in order      *)

\* the Tasks of a stage: at most MaxTasks Tasks with MaxRoutines routines in
\* all, named by Task and position, at times from firstTime to lastTime
TaskShapes ==
    {sh \in UNION {[1..k -> 0..MaxRoutines] : k \in 0..MaxTasks} :
        SumSeq(sh) <= MaxRoutines}

RECURSIVE TasksOfShape(_, _, _)
TasksOfShape(sh, firstTime, lastTime) ==
    IF sh = <<>> THEN {<<>>}
    ELSE {Append(front, [j \in 1..sh[Len(sh)] |->
                            [routine_name |-> <<Len(sh), j>>, time |-> times[j]]])
          : front \in TasksOfShape(SubSeq(sh, 1, Len(sh) - 1), firstTime, lastTime),
            times \in [1..sh[Len(sh)] -> firstTime..lastTime]}

\* the monitoring options a stage may give: a step size, a number of steps
\* or neither
MonitoringOptions(ptime) ==
    {[k \in {} |-> 0]}
    \cup {[monitoring_numsteps |-> n] : n \in 1..MaxNumsteps}
    \cup {[monitoring_stepsize |-> sz] : sz \in 1..ptime}

\* np.linspace lands on integer times for a number of steps
Divides(num, ptime) == num = 1 \/ ptime % (num - 1) = 0

\* the three compilers' monitoring times are integers
GridExact(options) ==
    LET ptime == options["propagation_time"]
    IN  /\ "monitoring_numsteps" \in DOMAIN options =>
              Divides(options["monitoring_numsteps"], ptime)
        /\ "monitoring_stepsize" \in DOMAIN options =>
              /\ Divides(GetNumsteps(options).value, ptime)
              /\ Divides(Len(Arange(0, ptime, options["monitoring_stepsize"])), ptime)

\* the options of an evolution stage
StageOptions(ptime) ==
    {o \in {[propagation_time |-> ptime] @@ mo : mo \in MonitoringOptions(ptime)} :
        GridExact(o)}

RegularStages ==
    {[type |-> "regular", options |-> [k \in {} |-> 0], monitoring |-> 0, tasks |-> <<>>]}

\* the stage of the worked example: ten time units in three monitoring
\* steps, one template, one Task with one routine at time 7
ExampleStage ==
    [type |-> "evolution",
     options |-> [propagation_time |-> 10, monitoring_numsteps |-> 3],
     monitoring |-> 1,
     tasks |-> <<<<[routine_name |-> <<1, 1>>, time |-> 7]>>>>]

\* the Tasks of a stage that starts at start and lasts ptime: routines from
\* one time unit before its start to one after its stop
AllTasks(start, ptime) ==
    LET first == IF start = 0 THEN 0 ELSE start - 1
    IN  UNION {TasksOfShape(sh, first, start + ptime + 1) : sh \in TaskShapes}

\* a schedule of one evolution stage
InitStage ==
    /\ \/ \E start \in 0..MaxStart, p \in 1..MaxPropagationTime :
            \E o \in StageOptions(p), m \in 0..MaxTemplates, ts \in AllTasks(start, p) :
                sched = [start_time |-> start,
                         stages |-> <<[type |-> "evolution", options |-> o,
                                       monitoring |-> m, tasks |-> ts]>>]
       \/ sched = [start_time |-> 0, stages |-> <<ExampleStage>>]
    /\ out = <<>>
    /\ family = "idle"
    /\ IdleTree
    /\ IdleOptions
    /\ IdleBuild

\* evolution stages without Tasks, monitored at their start and their stop
PlainStages ==
    {[type |-> "evolution",
      options |-> [propagation_time |-> p, monitoring_numsteps |-> 2],
      monitoring |-> m, tasks |-> <<>>] :
        p \in 1..MaxPropagationTime, m \in 0..MaxTemplates}

\* a schedule of up to MaxStages regular and evolution stages
InitSchedule ==
    /\ \E start \in 0..MaxStart, k \in 1..MaxStages :
          \E stages \in [1..k -> RegularStages \cup PlainStages] :
              sched = [start_time |-> start, stages |-> stages]
    /\ out = <<>>
    /\ family = "idle"
    /\ IdleTree
    /\ IdleOptions
    /\ IdleBuild

\* the next stage can be compiled by the compiler fam
CanCompile(fam) ==
    /\ family \in {"idle", fam}
    /\ Len(out) < Len(sched.stages)
    /\ \A i \in 1..Len(out) : out[i].error = "ok"

NextStage == sched.stages[Len(out) + 1]

\* preprocessor: NodeOptionsProcessor.process_routines on the next stage
ProcessStage ==
    /\ CanCompile("preprocessor")
    /\ out' = Append(out, ProcessRoutines(sched, NextStage))
    /\ family' = "preprocessor"
    /\ UNCHANGED <<sched, treeVars, optVars, buildVars>>

\* builder: GraphBuilder.compile, one turn of its loop over the stages
CompileStage ==
    /\ CanCompile("builder")
    /\ out' = Append(out, Compile(sched, NextStage, out))
    /\ family' = "builder"
    /\ UNCHANGED <<sched, treeVars, optVars, buildVars>>

\* graph_compiler: StageCompiler.compile on the next stage
CompileStageGC ==
    /\ CanCompile("graph_compiler")
    /\ out' = Append(out, CompileGC(sched, NextStage))
    /\ family' = "graph_compiler"
    /\ UNCHANGED <<sched, treeVars, optVars, buildVars>>

\* builder/intertorun: Inter2RunProcessor, one turn of its loop over the
\* stages, for a regular stage
CompileStageI2R ==
    /\ CanCompile("intertorun")
    /\ NextStage.type = "regular"
    /\ out' = Append(out, CompileRegularI2R(NextStage))
    /\ family' = "intertorun"
    /\ UNCHANGED <<sched, treeVars, optVars, buildVars>>

NextCompile == ProcessStage \/ CompileStage \/ CompileStageGC

SpecStage == InitStage /\ [][NextCompile]_vars

SpecSchedule == InitSchedule /\ [][NextCompile]_vars

\* the names of the routines of a regular stage
RoutineNames == {"r1", "r2"}

\* the options of a regular routine of the inter graph: the keys of its
\* schema and its type
InterRoutine(name) ==
    [k \in RegularRoutineKeys \cup {"type"} |->
        IF k = "routine_name" THEN name
        ELSE IF k = "type" THEN "regular" ELSE "kind_ok"]

\* regular stages with up to MaxRoutines routines
RoutineStages ==
    {[type |-> "regular", options |-> [k \in {} |-> 0], monitoring |-> 0,
      tasks |-> <<[j \in 1..Len(names) |-> InterRoutine(names[j])]>>] :
        names \in UNION {[1..n -> RoutineNames] : n \in 0..MaxRoutines}}

\* a schedule of one or two regular stages
InitRegular ==
    /\ \E start \in 0..MaxStart, k \in 1..2 :
          \E stages \in [1..k -> RoutineStages] :
              sched = [start_time |-> start, stages |-> stages]
    /\ out = <<>>
    /\ family = "idle"
    /\ IdleTree
    /\ IdleOptions
    /\ IdleBuild

NextRegular == CompileStage \/ CompileStageI2R

SpecRegular == InitRegular /\ [][NextRegular]_vars
\* the monitoring options of a stage that gives neither, one or both of the
\* step size and the number of steps
StepOptions(ptime) ==
    MonitoringOptions(ptime)
    \cup {[monitoring_numsteps |-> n, monitoring_stepsize |-> sz] :
            n \in 1..MaxNumsteps, sz \in 1..ptime}

\* a schedule of one evolution stage without Tasks
InitMonitoring ==
    /\ \E start \in 0..MaxStart, p \in 1..MaxPropagationTime + 1 :
          \E o \in {x \in {[propagation_time |-> p] @@ mo : mo \in StepOptions(p)} :
                        GridExact(x)},
             m \in 0..MaxTemplates :
              sched = [start_time |-> start,
                       stages |-> <<[type |-> "evolution", options |-> o,
                                     monitoring |-> m, tasks |-> <<>>]>>]
    /\ out = <<>>
    /\ family = "idle"
    /\ IdleTree
    /\ IdleOptions
    /\ IdleBuild

SpecMonitoring == InitMonitoring /\ [][NextCompile]_vars

-----------------------------------------------------------------------------
(* graph/spec.py set_options and verify over a user graph                  *)

\* the keys whose schema default is None, which is of no accepted type
NoneDefaults == {"monitoring_stepsize", "monitoring_numsteps", "TYPE"}

\* spec.options[key]["default"] as a kind of value
DefaultKind(key) == IF key \in NoneDefaults THEN "default" ELSE "kind_ok"

\* set_options, lines 421-466, on the option dict of a node of schema sc.
\* node.options[key] of a missing key goes to the parent's global_options,
\* which no node of the model gives: KeyError. The groups missing_groups
\* reports are empty sets, so a missing group never finds a match.
SetOptionsLocal(sc, local) ==
    LET mand_miss == sc.mand \ DOMAIN local
        fetched == (sc.opt \cup GroupKeys(sc.optex)) \ DOMAIN local
        mandex_miss == {i \in 1..Len(sc.mandex) : sc.mandex[i] \cap DOMAIN local = {}}
        updated == [k \in fetched |-> DefaultKind(k)] @@ local
    IN  IF mand_miss # {} THEN [error |-> "KeyError", local |-> local]
        ELSE IF mandex_miss # {}
        THEN [error |-> "NodeConfigurationError", local |-> local]
        ELSE IF ~Verify(sc, updated).ok
        THEN [error |-> "NodeConfigurationError", local |-> updated]
        ELSE [error |-> "ok", local |-> updated]

\* the specification of a node for set_options and verify: an ambiguous
\* one is a tuple, which has no attribute "options"
SpecificationOf(g, o, n) ==
    LET spec == GetSpecification(g, o, n)
    IN  IF spec.error # "ok" THEN spec
        ELSE IF Cardinality(spec.types) # 1
        THEN [error |-> "AttributeError", types |-> {}]
        ELSE spec

\* NodeConfigurationProcessor.set_options(node): [error, opts]
SetOptions(g, o, n) ==
    LET spec == SpecificationOf(g, o, n)
        label == g.nodes[n].label
        sc == UserSchemas[<<RankName(g.nodes[n].rank), CHOOSE t \in spec.types : TRUE>>]
        r == SetOptionsLocal(sc, o[label])
    IN  IF spec.error # "ok" THEN [error |-> spec.error, opts |-> o]
        ELSE [error |-> r.error, opts |-> [o EXCEPT ![label] = r.local]]

\* set_options(node, graph=True)
RECURSIVE SetOptionsAll(_, _, _)
SetOptionsAll(g, o, order) ==
    IF order = <<>> THEN [error |-> "ok", opts |-> o]
    ELSE CHOOSE res \in {IF r.error # "ok" THEN r
                          ELSE SetOptionsAll(g, r.opts, Tail(order))
                          : r \in {SetOptions(g, o, Head(order))}} : TRUE

\* NodeConfigurationProcessor._verify_local(node): "ok" or the error
VerifyLocal(g, o, n) ==
    LET spec == SpecificationOf(g, o, n)
        sc == UserSchemas[<<RankName(g.nodes[n].rank), CHOOSE t \in spec.types : TRUE>>]
    IN  IF spec.error # "ok" THEN spec.error
        ELSE IF Verify(sc, o[g.nodes[n].label]).ok THEN "ok"
        ELSE "NodeConfigurationError"

\* verify(node, graph=True)
RECURSIVE VerifyAll(_, _, _)
VerifyAll(g, o, order) ==
    IF order = <<>> THEN "ok"
    ELSE LET e == VerifyLocal(g, o, Head(order))
         IN  IF e # "ok" THEN e ELSE VerifyAll(g, o, Tail(order))

\* TaskResolver.inline(root, graph=True) of the builder
RECURSIVE InlineAll(_, _)
InlineAll(g, order) ==
    IF order = <<>> \/ g.err # "ok" THEN g
    ELSE InlineAll(InlineNode(g, Head(order)), Tail(order))

-----------------------------------------------------------------------------
(* builder/main.py, builder/usertointer: lowering of the user graph        *)

\* _get_inter_opts_stage: the options of the inter stage, or the error
InterOptsStage(local, num_children) ==
    IF local["type"] = "regular"
    THEN [error |-> "ok", type |-> "regular", options |-> [num_routines |-> "kind_ok"]]
    ELSE IF {"propagation_time", "monitoring", "monitoring_numsteps"} \ DOMAIN local # {}
    THEN [error |-> "KeyError", type |-> "evolution", options |-> <<>>]
    ELSE IF local["monitoring_numsteps"] = "default"
            /\ ("monitoring_stepsize" \notin DOMAIN local
                \/ local["monitoring_stepsize"] = "default")
    THEN [error |-> IF "monitoring_stepsize" \in DOMAIN local
                    THEN "UnboundLocalError" ELSE "KeyError",
          type |-> "evolution", options |-> <<>>]
    ELSE [error |-> "ok", type |-> "evolution",
          options |-> [propagation_time |-> "kind_ok", monitoring |-> "kind_ok",
                       monitoring_numsteps |-> "kind_ok", num_routines |-> "kind_ok"]]

\* the inter stages of the stages of the user graph, in order
InterStages(g, o) ==
    [i \in 1..Len(g.children[Root]) |->
        InterOptsStage(o[g.nodes[g.children[Root][i]].label],
                       Len(g.children[g.children[Root][i]]))]

\* the first error of a sequence of results, "ok" when there is none
FirstError(rs) ==
    IF \A i \in 1..Len(rs) : rs[i].error = "ok" THEN "ok"
    ELSE rs[CHOOSE i \in 1..Len(rs) :
                /\ rs[i].error # "ok"
                /\ \A j \in 1..(i - 1) : rs[j].error = "ok"].error

\* Preprocessor._translate: add_children_from_options is handed the option
\* dict of the first stage, iterates over its keys and makes a child node
\* of every key, which the node's option dict (a UserDict) refuses:
\* ValueError
TranslateBuilder(g, o) ==
    LET stages == InterStages(g, o)
    IN  IF stages = <<>> THEN [error |-> "ok", stages |-> <<>>]
        ELSE IF stages[1].error # "ok" THEN [error |-> stages[1].error, stages |-> <<>>]
        ELSE [error |-> "ValueError", stages |-> <<>>]

\* INTER_GRAPH_CONFIG_DICT["ranks"]["Routine"]: the keys of an inter routine
InterRoutineKeys(type) ==
    IF type = "propagation" THEN {"time", "step"}
    ELSE IF type = "regular" THEN {"routine_name"} \cup RoutineOptional
    ELSE {"routine_name", "time"} \cup RoutineOptional

\* RoutineTranslator._translate_routines on one stage: a regular stage
\* projects every routine on the keys of the inter routine of its type and
\* yields once, after its loop, the routine of the last child (opts is
\* unbound without children); an evolution stage reads "systemtime" and
\* "stagetime" of every routine, keys no user routine has
TranslateRoutines(g, o, stage, inter) ==
    LET routs == g.children[stage]
        local(i) == o[g.nodes[routs[i]].label]
        keys(i) == InterRoutineKeys(local(i)["type"])
    IN  IF inter.type = "regular"
        THEN IF routs = <<>> THEN [error |-> "UnboundLocalError", routines |-> <<>>]
             ELSE IF \E i \in 1..Len(routs) : ~(keys(i) \subseteq DOMAIN local(i))
             THEN [error |-> "KeyError", routines |-> <<>>]
             ELSE [error |-> "ok",
                   routines |-> <<[k \in keys(Len(routs)) |-> local(Len(routs))[k]]>>]
        ELSE IF routs # <<>> THEN [error |-> "KeyError", routines |-> <<>>]
        ELSE [error |-> "ok", routines |-> <<>>]

\* get_specification on an inter routine, which is made without a type:
\* the types whose keys hold the routine's keys, narrowed by the types the
\* inter stage allows, ("regular",) or ("evolution",), and by the
\* incomplete ones when more than one is left
InterRoutineTypes(keys, stagetype) ==
    LET possible == {t \in {"regular", "evolution", "monitoring", "propagation"} :
                        keys \subseteq InterRoutineKeys(t)}
        narrowed == possible \cap {stagetype}
    IN  IF Cardinality(narrowed) > 1
        THEN {t \in narrowed : InterRoutineKeys(t) \subseteq keys}
        ELSE narrowed

\* intergraph._GRAPH_SPEC.processor.process(intergraph, True): the stages
\* of the translator hold every mandatory key of their type; a routine
\* whose keys fit no type its stage allows has invalid options
InterProcess(stages) ==
    IF \E i \in 1..Len(stages) : \E j \in 1..Len(stages[i].routines) :
          InterRoutineTypes(DOMAIN stages[i].routines[j], stages[i].type) = {}
    THEN "NodeConfigurationError"
    ELSE "ok"

\* RoutineTranslator.__call__: the inter stages are made first, an
\* evolution stage with its start_time, then the routines stage by stage;
\* User2InterProcessor.__call__ then processes the inter graph
TranslateU2I(g, o) ==
    LET stages == InterStages(g, o)
        routs == [i \in 1..Len(stages) |->
                    TranslateRoutines(g, o, g.children[Root][i], stages[i])]
        inter == [i \in 1..Len(stages) |->
                    [type |-> stages[i].type,
                     options |-> IF stages[i].type = "evolution"
                                 THEN [start_time |-> "kind_ok"] @@ stages[i].options
                                 ELSE stages[i].options,
                     routines |-> routs[i].routines]]
    IN  IF FirstError(stages) # "ok" THEN [error |-> FirstError(stages), stages |-> <<>>]
        ELSE IF FirstError(routs) # "ok" THEN [error |-> FirstError(routs), stages |-> <<>>]
        ELSE [error |-> InterProcess(inter), stages |-> inter]

\* GraphBuilder.compile and the verification of build on the inter graph
\* _translate returns, which has no stage: the loop compiles nothing, then
\* the run graph RunGraphRoot({}) is typed, completed and verified
CompileAndVerify(inter) ==
    LET r == SetOptionsLocal(RunSchemas[<<"Schedule", "default">>], [type |-> "default"])
    IN  [error |-> r.error, run |-> [options |-> r.local, stages |-> <<>>]]

-----------------------------------------------------------------------------
(* The build model: GraphBuilder.build and User2InterProcessor.__call__ on *)
(* a user graph, pass by pass                                              *)

\* the passes of the two drivers, in the order of their code
DriverPasses ==
    [builder |-> <<"set_type", "resolve", "set_options", "verify", "translate",
                   "compile">>,
     usertointer |-> <<"set_type", "inline", "set_type", "resolve", "set_options",
                       "verify", "translate">>]

\* the pass the driver runs next, "return" after its last
NextPass ==
    IF Len(passes) < Len(DriverPasses[family])
    THEN DriverPasses[family][Len(passes) + 1]
    ELSE "return"

InitBuild ==
    /\ InitUserGraph(MaxInitNodes)
    /\ family \in DOMAIN DriverPasses
    /\ lastOp = <<"init", "graph">>
    /\ nmut = 0
    /\ passes = <<>>
    /\ built = <<>>
    /\ sched = [start_time |-> 0, stages |-> <<>>]
    /\ out = <<>>
    /\ IdleOptions

\* the pass name is run by the driver now
Runs(name) == err = "ok" /\ NextPass = name

\* the order of "for ch in node" over the user graph, and the map it reads
MapRead == ValidateMap(nodes, children, idxCache, rootMap, mutated)

MapOrder == [i \in 1..Len(MapRead.map) |-> MapRead.map[i].node]

\* the end of a pass over the option dicts that ended with error e
EndPass(name, e, o) ==
    /\ optDicts' = o
    /\ err' = e
    /\ nodes' = Typed(CurrentGraph, o).nodes
    /\ passes' = IF e = "ok" THEN Append(passes, name) ELSE passes
    /\ rootMap' = MapRead.map
    /\ idxCache' = MapRead.cache
    /\ mutated' = MapRead.mutated
    /\ lastOp' = <<name, "graph">>
    /\ UNCHANGED <<children, nmut, given, built>>
    /\ UNCHANGED <<optVars, compVars>>

\* userprocessor.set_type(user_graph, graph=True)
PassSetType ==
    /\ Runs("set_type")
    /\ LET r == SetTypeAll(CurrentGraph, optDicts, MapOrder)
       IN  EndPass("set_type", r.error, r.opts)

\* userprocessor.set_options(user_graph, graph=True)
PassSetOptions ==
    /\ Runs("set_options")
    /\ LET r == SetOptionsAll(CurrentGraph, optDicts, MapOrder)
       IN  EndPass("set_options", r.error, r.opts)

\* userprocessor.verify(user_graph, graph=True)
PassVerify ==
    /\ Runs("verify")
    /\ EndPass("verify", VerifyAll(CurrentGraph, optDicts, MapOrder), optDicts)

\* the end of a pass over the tree that gave the graph g
EndTreePass(name, g) ==
    /\ children' = g.children
    /\ idxCache' = g.cache
    /\ mutated' = g.mutated
    /\ err' = g.err
    /\ nodes' = Typed(g, optDicts).nodes
    /\ passes' = IF g.err = "ok" THEN Append(passes, name) ELSE passes
    /\ rootMap' = MapRead.map
    /\ lastOp' = <<name, "graph">>
    /\ UNCHANGED <<optDicts, nmut, given, built>>
    /\ UNCHANGED <<optVars, compVars>>

\* the graph record the tree passes start from
MapGraph ==
    [nodes |-> nodes, children |-> children, cache |-> MapRead.cache,
     mutated |-> MapRead.mutated, err |-> "ok"]

\* self._taskresolver.inline(input, graph=True)
PassInline ==
    /\ Runs("inline")
    /\ EndTreePass("inline", InlineAll(MapGraph, MapOrder))

\* self._taskresolver.resolve(user_graph, graph=True)
PassResolve ==
    /\ Runs("resolve")
    /\ EndTreePass("resolve", ResolveAll(MapGraph, MapOrder))

\* _translate and interspec.processor.process, or the RoutineTranslator
PassTranslate ==
    /\ Runs("translate")
    /\ LET r == IF family = "builder"
                THEN TranslateBuilder(CurrentGraph, optDicts)
                ELSE TranslateU2I(CurrentGraph, optDicts)
       IN  /\ err' = r.error
           /\ sched' = [sched EXCEPT !.stages = r.stages]
           /\ passes' = IF r.error = "ok" THEN Append(passes, "translate") ELSE passes
    /\ lastOp' = <<"translate", "graph">>
    /\ UNCHANGED <<nodes, children, idxCache, rootMap, mutated, nmut>>
    /\ UNCHANGED <<out, family, optDicts, given, built>>
    /\ UNCHANGED optVars

\* rungraph = self.compile(intergraph); verify(rungraph, True); return
PassCompile ==
    /\ Runs("compile")
    /\ LET r == CompileAndVerify(sched)
       IN  /\ err' = r.error
           /\ out' = r.run
           /\ passes' = IF r.error = "ok" THEN Append(passes, "compile") ELSE passes
           /\ built' = IF r.error = "ok" THEN Append(built, r.run) ELSE built
    /\ lastOp' = <<"compile", "graph">>
    /\ UNCHANGED <<nodes, children, idxCache, rootMap, mutated, nmut>>
    /\ UNCHANGED <<sched, family, optDicts, given>>
    /\ UNCHANGED optVars

\* the driver is called again on the same user graph, after it has
\* returned or raised
CallAgain ==
    /\ err # "ok" \/ NextPass = "return"
    /\ nmut < MaxBuilds - 1
    /\ nmut' = nmut + 1
    /\ err' = "ok"
    /\ passes' = <<>>
    /\ sched' = [sched EXCEPT !.stages = <<>>]
    /\ out' = <<>>
    /\ lastOp' = <<"call", "graph">>
    /\ UNCHANGED <<nodes, children, idxCache, rootMap, mutated>>
    /\ UNCHANGED <<family, optDicts, given, built>>
    /\ UNCHANGED optVars

NextBuild ==
    \/ PassSetType
    \/ PassInline
    \/ PassResolve
    \/ PassSetOptions
    \/ PassVerify
    \/ PassTranslate
    \/ PassCompile
    \/ CallAgain

SpecBuild == InitBuild /\ [][NextBuild]_vars

-----------------------------------------------------------------------------
(* api.py: Protocol, a collection of labelled schedules                    *)

\* a schedule label: a str, given by its characters, or an int
StrLabel(chars) == [kind |-> "str", chars |-> chars]

ScheduleLabels ==
    {StrLabel(<<"a">>), StrLabel(<<"b">>), StrLabel(<<"a", "b">>),
     [kind |-> "int", chars |-> <<"1">>]}

\* the schedules handed to a Protocol: a label, and whether
\* initialize_system has given the schedule its _system
Schedules == [label : ScheduleLabels, system : BOOLEAN]

\* set(sch.label): the characters of a str; an int is not iterable
SetOfLabel(label) == Range(label.chars)

\* sch.label in schedule_labels, a set of characters
LabelInChars(label, seen) ==
    label.kind = "str" /\ Len(label.chars) = 1 /\ label.chars[1] \in seen

\* Protocol.__init__, lines 38-43: the error the loop over the schedules
\* raises, "ok" when it ends
RECURSIVE CheckLabels(_, _)
CheckLabels(schedules, seen) ==
    IF schedules = <<>> THEN "ok"
    ELSE IF LabelInChars(Head(schedules).label, seen) THEN "ValueError"
    ELSE IF Head(schedules).label.kind = "int" THEN "TypeError"
    ELSE CheckLabels(Tail(schedules), seen \cup SetOfLabel(Head(schedules).label))

\* Protocol._map: dict(zip(labels, schedules)), as the set of its keys and
\* the schedule of a key, the last one of that label
MapKeys(schedules) == {schedules[i].label : i \in 1..Len(schedules)}

MapGet(schedules, label) ==
    schedules[CHOOSE i \in 1..Len(schedules) :
                  /\ schedules[i].label = label
                  /\ \A j \in (i + 1)..Len(schedules) : schedules[j].label # label]

\* Protocol.add_schedule: [error, schedules]
AddScheduleTo(schedules, schedule) ==
    IF schedule.label \in MapKeys(schedules)
    THEN [error |-> "ValueError", schedules |-> schedules]
    ELSE [error |-> "ok", schedules |-> Append(schedules, schedule)]

\* Protocol.duplicate_schedule: [error, schedules]
DuplicateScheduleIn(schedules, source_label, target_label) ==
    IF source_label \notin MapKeys(schedules)
    THEN [error |-> "KeyError", schedules |-> schedules]
    ELSE IF ~MapGet(schedules, source_label).system
    THEN [error |-> "AttributeError", schedules |-> schedules]
    ELSE AddScheduleTo(schedules, [label |-> target_label, system |-> TRUE])

\* no Protocol has been constructed
InitProtocol ==
    /\ out = <<>>
    /\ family = "idle"
    /\ sched = [start_time |-> 0, stages |-> <<>>]
    /\ err = "ok"
    /\ lastOp = [op |-> "init", arg |-> <<>>]
    /\ nmut = 0
    /\ nodes = <<>>
    /\ children = <<>>
    /\ idxCache = <<>>
    /\ rootMap = <<>>
    /\ mutated = {}
    /\ IdleOptions
    /\ IdleBuild

\* Protocol(schedules)
NewProtocol ==
    /\ family = "idle"
    /\ err = "ok"
    /\ \E k \in 0..MaxSchedules : \E schedules \in [1..k -> Schedules] :
          /\ err' = CheckLabels(schedules, {})
          /\ out' = IF err' = "ok" THEN schedules ELSE out
          /\ family' = IF err' = "ok" THEN "Protocol" ELSE family
          /\ lastOp' = [op |-> "construct", arg |-> schedules]
    /\ UNCHANGED <<nodes, children, idxCache, rootMap, mutated, nmut, sched>>
    /\ UNCHANGED <<optVars, buildVars>>

\* protocol.add_schedule(schedule)
DoAddSchedule ==
    /\ family = "Protocol"
    /\ nmut < MaxMutations
    /\ \E schedule \in Schedules :
          LET r == AddScheduleTo(out, schedule)
          IN  /\ err' = r.error
              /\ out' = r.schedules
              /\ lastOp' = [op |-> "add", arg |-> <<schedule.label>>]
    /\ nmut' = nmut + 1
    /\ UNCHANGED <<nodes, children, idxCache, rootMap, mutated, sched, family>>
    /\ UNCHANGED <<optVars, buildVars>>

\* protocol.duplicate_schedule(source_label, target_label)
DoDuplicateSchedule ==
    /\ family = "Protocol"
    /\ nmut < MaxMutations
    /\ \E source_label \in ScheduleLabels, target_label \in ScheduleLabels :
          LET r == DuplicateScheduleIn(out, source_label, target_label)
          IN  /\ err' = r.error
              /\ out' = r.schedules
              /\ lastOp' = [op |-> "duplicate", arg |-> <<source_label, target_label>>]
    /\ nmut' = nmut + 1
    /\ UNCHANGED <<nodes, children, idxCache, rootMap, mutated, sched, family>>
    /\ UNCHANGED <<optVars, buildVars>>

NextProtocol ==
    \/ NewProtocol
    \/ DoAddSchedule
    \/ DoDuplicateSchedule

SpecProtocol == InitProtocol /\ [][NextProtocol]_vars

-----------------------------------------------------------------------------
(* builder/taskresolver.py: the option maps of the routines of an inlined  *)
(* Task in an evolution stage                                              *)

\* dict without the keys
Without(d, keys) == [k \in DOMAIN d \ keys |-> d[k]]

\* _inline_evolution, lines 44-49: the key under which the Task gives its
\* anchor time, "stagetime" before "systemtime"; no ancestor of the Task
\* gives one in global_options
TimeKey(task_opts) ==
    IF "stagetime" \in DOMAIN task_opts THEN "stagetime"
    ELSE IF "systemtime" \in DOMAIN task_opts THEN "systemtime"
    ELSE "none"

\* _inline_evolution, lines 43-53, for one copied routine option map:
\* [error, opt]
InlineRoutineOpts(task_opts, opt) ==
    IF TimeKey(task_opts) = "none" THEN [error |-> "KeyError", opt |-> opt]
    ELSE LET timed == (TimeKey(task_opts) :> task_opts[TimeKey(task_opts)]) @@ opt
         IN  IF "tasktime" \notin DOMAIN timed \/ "type" \notin DOMAIN timed
             THEN [error |-> "KeyError", opt |-> timed]
             ELSE [error |-> "ok", opt |-> Without(timed, {"tasktime", "type"})]

\* _inline_evolution: the routine option maps of the inlined Task and the
\* template after the call; the maps are copies, so the template is the
\* one given. processor.process finds the inlined Task typed "default" and
\* complete, as the parser left the template.
InlineEvolutionOpts(task_opts, template) ==
    LET rs == [j \in 1..Len(template.routines) |->
                  InlineRoutineOpts(task_opts, template.routines[j])]
    IN  [error |-> IF \E j \in 1..Len(rs) : rs[j].error # "ok"
                   THEN "KeyError" ELSE "ok",
         routines |-> [j \in 1..Len(rs) |-> rs[j].opt],
         template |-> template]

\* the routine option maps of a template as the parser leaves them: typed
\* "task-evolution" with a tasktime, or "task-regular" without
TemplateRoutines(name) ==
    {[routine_name |-> name, type |-> "task-regular"]}
    \cup {[routine_name |-> name, type |-> "task-evolution", tasktime |-> t] :
            t \in 0..MaxOffset}

Templates ==
    UNION {{[options |-> [name |-> "t1", type |-> "default"], routines |-> rs] :
              rs \in {f \in [1..k -> UNION {TemplateRoutines(n) : n \in {"a", "b"}}] :
                        \A j \in 1..k : f[j].routine_name = <<"a", "b">>[j]}}
           : k \in 0..MaxRoutines}

\* the option maps of a Task of type predefined-evolution
ReferencingTasks ==
    {[name |-> "t1"]}
    \cup {[name |-> "t1", stagetime |-> t] : t \in 0..MaxAnchor}
    \cup {[name |-> "t1", systemtime |-> t] : t \in 0..MaxAnchor}

\* a template and the Tasks of an evolution stage that reference it
InitInlineTimes ==
    /\ \E template \in Templates, k \in 1..MaxTasks :
          \E tasks \in [1..k -> ReferencingTasks] :
              sched = [template |-> template, declared |-> template, tasks |-> tasks]
    /\ out = <<>>
    /\ family = "inline"
    /\ IdleTree
    /\ IdleOptions
    /\ IdleBuild

\* taskresolver.inline on the next referencing Task
DoInlineEvolution ==
    /\ Len(out) < Len(sched.tasks)
    /\ \A i \in 1..Len(out) : out[i].error = "ok"
    /\ LET r == InlineEvolutionOpts(sched.tasks[Len(out) + 1], sched.template)
       IN  /\ out' = Append(out, [error |-> r.error, routines |-> r.routines])
           /\ sched' = [sched EXCEPT !.template = r.template]
    /\ UNCHANGED <<family, treeVars, optVars, buildVars>>

NextInlineTimes == DoInlineEvolution

SpecInlineTimes == InitInlineTimes /\ [][NextInlineTimes]_vars

-----------------------------------------------------------------------------
(* graph/base.py and graph/core.py: GraphNodeOptions.__getitem__             *)
(* The nodes are a root, a Stage, a Task and a Routine, each the parent of   *)
(* the next: node n has rank n - 1 and optDicts[n] is its local option map.  *)

\* str.lower on a rank name
Lower(name) ==
    CASE name = "Schedule" -> "schedule"
      [] name = "Stage" -> "stage"
      [] name = "Task" -> "task"
      [] name = "Routine" -> "routine"
      [] OTHER -> name

KeyNotFound == [error |-> "KeyError", value |-> 0]

\* graph/base.py GraphNodeOptions.__getitem__: [error, value]
RECURSIVE GetItem(_, _, _)
GetItem(dicts, n, key) ==
    IF key \in DOMAIN dicts[n] THEN [error |-> "ok", value |-> dicts[n][key]]
    ELSE IF n = 1 THEN KeyNotFound
    ELSE CHOOSE res \in
           {IF glob.error # "ok" THEN KeyNotFound
            ELSE IF Lower(RankName(n - 1)) \notin DOMAIN glob.value THEN KeyNotFound
            ELSE IF key \notin DOMAIN glob.value[Lower(RankName(n - 1))]
                 THEN KeyNotFound
            ELSE [error |-> "ok",
                  value |-> glob.value[Lower(RankName(n - 1))][key]]
              : glob \in {GetItem(dicts, n - 1, "global_options")}} : TRUE

\* graph/core.py GraphNodeOptions.__getitem__ and its loop over
\* node.ancestors, the parent first: [error, value]
RECURSIVE GetItemCore(_, _, _)
RECURSIVE FromAncestors(_, _, _, _)
GetItemCore(dicts, n, key) ==
    IF key \in DOMAIN dicts[n] THEN [error |-> "ok", value |-> dicts[n][key]]
    ELSE FromAncestors(dicts, n, n - 1, key)

FromAncestors(dicts, n, par, key) ==
    IF par = 0 THEN KeyNotFound
    ELSE CHOOSE res \in
           {IF /\ glob.error = "ok"
               /\ Lower(RankName(n - 1)) \in DOMAIN glob.value
               /\ key \in DOMAIN glob.value[Lower(RankName(n - 1))]
            THEN [error |-> "ok",
                  value |-> glob.value[Lower(RankName(n - 1))][key]]
            ELSE FromAncestors(dicts, n, par - 1, key)
              : glob \in {GetItemCore(dicts, par, "global_options")}} : TRUE

\* the values a node may give under "global_options": an entry for the rank
\* of a descendant with or without the key "k", or an entry for a rank in
\* between that holds a "global_options" of its own
GlobalChoices(n) ==
    {Lower(RankName(t - 1)) :> [k |-> 10 * n + t] : t \in (n + 1)..(LeafRank + 1)}
    \cup {Lower(RankName(t - 1)) :> [other |-> 0] : t \in (n + 1)..(LeafRank + 1)}
    \cup {Lower(RankName(p[1] - 1)) :>
              [global_options |->
                  Lower(RankName(p[2] - 1)) :> [k |-> 100 * n + 10 * p[1] + p[2]]]
            : p \in {q \in ((n + 1)..(LeafRank + 1)) \X ((n + 1)..(LeafRank + 1)) :
                        q[1] < q[2]}}

\* the local option maps a node may have
LocalChoices(n) ==
    LET plain == {[name |-> Lower(RankName(n - 1))],
                  [name |-> Lower(RankName(n - 1)), k |-> n]}
    IN  plain \cup {("global_options" :> glob) @@ d :
                       d \in plain, glob \in GlobalChoices(n)}

InitGetItem ==
    /\ \E r \in LocalChoices(1), s \in LocalChoices(2),
          t \in LocalChoices(3), c \in LocalChoices(4) :
          optDicts = <<r, s, t, c>>
    /\ sched = [start_time |-> 0, stages |-> <<>>]
    /\ out = <<>>
    /\ family \in {"base", "core"}
    /\ passes = <<>>
    /\ given = NoGraph
    /\ built = <<>>
    /\ IdleTree
    /\ IdleOptions

\* node.options["k"] with the class of graph/base.py
DoGetItem ==
    /\ family = "base"
    /\ \E n \in 1..(LeafRank + 1) :
          LET r == GetItem(optDicts, n, "k")
          IN  out' = <<[node |-> n, error |-> r.error, value |-> r.value]>>
    /\ UNCHANGED <<sched, family, treeVars, optVars, buildVars>>

\* node.options["k"] with the class of graph/core.py
DoGetItemCore ==
    /\ family = "core"
    /\ \E n \in 1..(LeafRank + 1) :
          LET r == GetItemCore(optDicts, n, "k")
          IN  out' = <<[node |-> n, error |-> r.error, value |-> r.value]>>
    /\ UNCHANGED <<sched, family, treeVars, optVars, buildVars>>

NextGetItem == DoGetItem \/ DoGetItemCore

SpecGetItem == InitGetItem /\ [][NextGetItem]_vars

-----------------------------------------------------------------------------
(* graph/spec.py: set_options on a typed node whose ancestors may give      *)
(* options in global_options. The nodes are the root, an evolution Stage, a *)
(* Task and a Routine as for __getitem__; optDicts[n] is the local map.     *)

\* node.options[key] for the keys the lookup finds
Fetched(dicts, n, keys) ==
    [k \in {x \in keys : GetItem(dicts, n, x).error = "ok"} |->
        GetItem(dicts, n, k).value]

\* spec.options[key]["default"]: the default of "global_options" is the
\* empty dict
SchemaDefault(key) == IF key = "global_options" THEN <<>> ELSE DefaultKind(key)

\* the values of an option map as verify sees them: the value under
\* "global_options" is a dict, an instance of the accepted type
Kinds(d) == [k \in DOMAIN d |-> IF k = "global_options" THEN "kind_ok" ELSE d[k]]

\* set_options, lines 419-472, on node n of schema sc: [error, local]
SetOptionsFetch(sc, dicts, n) ==
    LET local == dicts[n]
        mand_miss == sc.mand \ DOMAIN local
        opt_miss == (sc.opt \cup GroupKeys(sc.optex)) \ DOMAIN local
        mandex_miss == {i \in 1..Len(sc.mandex) : sc.mandex[i] \cap DOMAIN local = {}}
        mand_fetched == Fetched(dicts, n, mand_miss)
        opt_fetched == Fetched(dicts, n, opt_miss)
                       @@ [k \in opt_miss |-> SchemaDefault(k)]
        updated == mand_fetched @@ opt_fetched @@ local
    IN  IF DOMAIN mand_fetched # mand_miss
        THEN [error |-> "KeyError", local |-> local]
        ELSE IF mandex_miss # {}
        THEN [error |-> "NodeConfigurationError", local |-> local]
        ELSE IF ~Verify(sc, Kinds(updated)).ok
        THEN [error |-> "NodeConfigurationError", local |-> updated]
        ELSE [error |-> "ok", local |-> updated]

\* the schema of node n, which has its type
SchemaOf(dicts, n) == UserSchemas[<<RankName(n - 1), dicts[n]["type"]>>]

\* option maps of the four nodes
SuppliedToStage ==
    {[propagation_time |-> v] : v \in {"kind_ok", "kind_bad"}}
    \cup {[monitoring_numsteps |-> "kind_ok"],
          [propagation_time |-> "kind_ok", monitoring |-> "kind_ok"]}

SuppliedToRoutine ==
    {[routine_name |-> v] : v \in {"kind_ok", "kind_bad"}}
    \cup {[tag |-> v] : v \in {"kind_ok", "default"}}
    \cup {[routine_name |-> "kind_ok", tag |-> "kind_ok"], [time |-> "kind_ok"]}

WithSome(d, key, values) == {d} \cup {(key :> v) @@ d : v \in values}

SetOptionsRoots ==
    WithSome([type |-> "default", stages |-> "kind_ok"], "global_options",
             {[stage |-> s] : s \in SuppliedToStage}
             \cup {[routine |-> [routine_name |-> "kind_ok"]]})

SetOptionsStages ==
    UNION {WithSome(e, "global_options", {[routine |-> [routine_name |-> "kind_ok"]]}) :
             e \in UNION {WithSome(d, "monitoring", {"default", "kind_ok"}) :
                            d \in WithSome([type |-> "evolution"],
                                           "propagation_time", {"kind_ok"})}}

SetOptionsTasks ==
    WithSome([type |-> "default"], "global_options",
             {[routine |-> r] : r \in SuppliedToRoutine})

SetOptionsRoutines ==
    UNION {WithSome(e, "time", {"kind_ok"}) :
             e \in UNION {WithSome(d, "tag", {"default", "kind_ok"}) :
                            d \in UNION {WithSome([type |-> t], "routine_name", {"kind_ok"}) :
                                           t \in {"regular", "evolution"}}}}

InitSetOptions ==
    /\ \E r \in SetOptionsRoots, s \in SetOptionsStages,
          t \in SetOptionsTasks, c \in SetOptionsRoutines :
          optDicts = <<r, s, t, c>>
    /\ sched = [start_time |-> 0, stages |-> <<>>]
    /\ out = <<>>
    /\ family = "set_options"
    /\ passes = <<>>
    /\ given = NoGraph
    /\ built = <<>>
    /\ IdleTree
    /\ IdleOptions

\* processor.set_options(node) on a node after the nodes it was called on
DoSetOptionsNode ==
    /\ \A i \in 1..Len(out) : out[i].error = "ok"
    /\ \E n \in 1..(LeafRank + 1) :
          /\ \A i \in 1..Len(out) : out[i].node < n
          /\ LET r == SetOptionsFetch(SchemaOf(optDicts, n), optDicts, n)
             IN  /\ out' = Append(out, [node |-> n, error |-> r.error])
                 /\ optDicts' = [optDicts EXCEPT ![n] = r.local]
    /\ UNCHANGED <<sched, family, treeVars, optVars, passes, given, built>>

NextSetOptions == DoSetOptionsNode

SpecSetOptions == InitSetOptions /\ [][NextSetOptions]_vars

-----------------------------------------------------------------------------
(* graph/spec.py: set_type on one node of a constructed user graph, with    *)
(* the node and the outcome of the call kept in out                         *)

\* the option dicts of a graph in which Tasks that hold routines may be
\* given with the type "predefined" and a name
GivenPredefined(g, o) ==
    {[l \in 1..Len(o) |->
        IF l \in S THEN [type |-> "predefined", name |-> "kind_ok", routines |-> "kind_ok"]
        ELSE o[l]] :
       S \in SUBSET {g.nodes[n].label : n \in {m \in 1..Len(g.nodes) :
                        g.nodes[m].rank = TaskRank /\ g.children[m] # <<>>}}}

\* UserGraphRoot(options)
InitSetTypeNode ==
    /\ \E shape \in StageLists(MaxInitNodes) :
        LET g == Construct(shape)
        IN  \E o0 \in GraphDicts(g, Len(g.nodes)) :
              \E o \in GivenPredefined(g, o0) :
                LET ca0 == [n \in 1..Len(g.nodes) |-> NoIdx]
                IN  /\ nodes = Typed(g, o).nodes
                    /\ children = g.children
                    /\ idxCache = CacheAfterLocalMap(g.nodes, g.children, ca0, Root)
                    /\ rootMap = LocalMap(g.nodes, g.children, ca0, Root)
                    /\ mutated = {}
                    /\ err = "ok"
                    /\ optDicts = o
                    /\ given = [nodes |-> Typed(g, o).nodes, children |-> g.children,
                                opts |-> o]
    /\ lastOp = <<"init", "graph">>
    /\ nmut = 0
    /\ passes = <<>>
    /\ built = <<>>
    /\ IdleOptions
    /\ IdleCompile

\* processor.set_type(node)
DoSetTypeNode ==
    /\ err = "ok"
    /\ \E n \in 1..Len(nodes) :
        LET r == SetType(CurrentGraph, optDicts, n)
        IN  /\ optDicts' = r.opts
            /\ err' = r.error
            /\ nodes' = Typed(CurrentGraph, r.opts).nodes
            /\ out' = <<[node |-> n, error |-> r.error]>>
    /\ lastOp' = <<"set_type", "node">>
    /\ UNCHANGED <<children, idxCache, rootMap, mutated, nmut>>
    /\ UNCHANGED <<passes, given, built, sched, family>>
    /\ UNCHANGED optVars

NextSetTypeNode == DoSetTypeNode

SpecSetTypeNode == InitSetTypeNode /\ [][NextSetTypeNode]_vars

-----------------------------------------------------------------------------
(* graph/base.py: the children setter on a node made with make_child that   *)
(* no node has among its children yet                                       *)

\* new = parent.make_child(opts); new.children = (new.make_child(opts), ...)
DoAssignChildrenOfNew ==
    /\ CanMutate
    /\ \E q \in Nodes, k \in 0..MaxNew :
          /\ Len(nodes) + 1 + k <= MaxNodes
          /\ nodes[q].rank + 1 < LeafRank
          /\ LET g1 == WithFresh(G, q, 1)
                 p == Len(nodes) + 1
             IN  Commit(ChildrenSetter(WithFresh(g1, p, k), p, Fresh(g1, k)),
                        "set_children")
          /\ rootMap' = rootMap
          /\ nmut' = nmut + 1
          /\ UNCHANGED <<optVars, compVars, buildVars>>

NextAssign ==
    \/ DoAssignChildren
    \/ DoAssignChildrenOfNew
    \/ DoAddChildren
    \/ ReadMap

SpecAssign == InitTree /\ [][NextAssign]_vars

-----------------------------------------------------------------------------
(* Properties of the tree and of the resolver *)

\* nodes reachable from the root through children
Reach == Range(It(nodes, children, Root))

\* the ID property of node n in the current state
NodeID(n) == ID(nodes, children, idxCache, n)

\* the set {1..n} of a set of numbers as an ascending sequence
RECURSIVE Ascending(_)
Ascending(S) ==
    IF S = {} THEN <<>>
    ELSE LET m == CHOOSE x \in S : \A y \in S : x <= y
         IN  <<m>> \o Ascending(S \ {m})

\* the Tasks a stage was constructed with, in declaration order
DeclaredTasks(s) ==
    Ascending({n \in Nodes : nodes[n].rank = TaskRank /\ nodes[n].parent = s
                             /\ nodes[n].type = "default"})

\* the routines declared in the Tasks of stage s, Task by Task
DeclaredRoutines(s) ==
    LET ts == DeclaredTasks(s)
    IN  Concat([i \in 1..Len(ts) |-> nodes[ts[i]].decl])

Stages == {n \in Nodes : nodes[n].rank = 1 /\ nodes[n].parent = Root}

\* C1: whenever root.map has just been read, its values are exactly the
\* nodes reachable from the root and every entry is keyed by the ID of its
\* node
C1_MapExact ==
    lastOp = "map" =>
        /\ {rootMap[i].node : i \in 1..Len(rootMap)} = Reach
        /\ \A i \in 1..Len(rootMap) :
              rootMap[i].node \in Reach => rootMap[i].id = NodeID(rootMap[i].node)

\* C2: in every state the reachable nodes have pairwise distinct IDs and
\* the last element of a node's ID is its index among its parent's children
C2_IDsDistinctAndLocal ==
    /\ \A n, m \in Reach : n # m => NodeID(n) # NodeID(m)
    /\ \A n \in Reach \ {Root} :
          GetChildrenIndex(nodes, children, idxCache, n)
              = Index(children[nodes[n].parent], n)

\* C9: after the resolution pass every stage's children are exactly the
\* routines its Tasks declared, in Task order then declaration order, and
\* no Task node is left
C9_ResolveFlattens ==
    (lastOp = "resolve" /\ err = "ok") =>
        \A s \in Stages :
            /\ [i \in 1..Len(children[s]) |-> nodes[children[s][i]].label]
                   = DeclaredRoutines(s)
            /\ \A i \in 1..Len(children[s]) : nodes[children[s][i]].rank = LeafRank

\* C17: in every graph state, after construction and after the resolution
\* pass, every node below the root has the rank of its parent plus one, and
\* its rank is the length of its ID minus one
C17_RankIsDepth ==
    \A n \in Reach \ {Root} :
        /\ nodes[n].rank = nodes[nodes[n].parent].rank + 1
        /\ IDDefined(nodes, children, idxCache, n)
             => nodes[n].rank = IDRank(NodeID(n))

-----------------------------------------------------------------------------
(* Properties of verify *)

Verified == vResult # NotVerified

Schema == UserSchemas[vSchema]

\* every value of the map is of a kind its option accepts
ValuesAccepted(opts) == \A k \in DOMAIN opts : opts[k] = "kind_ok"

\* the map holds every mandatory and optional key and the type, one key or
\* more of every exclusive group, nothing else, and accepted values
Complete(sc, opts) ==
    /\ NonexclusiveKeys(sc) \subseteq DOMAIN opts
    /\ \A i \in 1..Len(ExclusiveKeygroups(sc)) :
          ExclusiveKeygroups(sc)[i] \cap DOMAIN opts # {}
    /\ DOMAIN opts \subseteq SchemaKeys(sc) \cup {"type"}
    /\ ValuesAccepted(opts)

\* the map is complete but for the keys of group grp, of which it may hold any
OtherwiseComplete(sc, opts, grp) ==
    /\ NonexclusiveKeys(sc) \subseteq DOMAIN opts
    /\ \A i \in 1..Len(ExclusiveKeygroups(sc)) :
          ExclusiveKeygroups(sc)[i] # grp =>
              ExclusiveKeygroups(sc)[i] \cap DOMAIN opts # {}
    /\ DOMAIN opts \subseteq SchemaKeys(sc) \cup {"type"}
    /\ ValuesAccepted(opts)

\* the map is complete once key k is put back with an accepted value
CompleteBut(sc, opts, k) ==
    /\ k \notin DOMAIN opts
    /\ Complete(sc, [j \in DOMAIN opts \cup {k} |-> IF j = k THEN "kind_ok" ELSE opts[j]])

\* C7: for a mandatory-exclusive group and an otherwise complete option map,
\* verify fails when no key of the group is present, succeeds when exactly one
\* is present, and fails when two are present.
C7_ExclusiveGroupExactlyOne ==
    Verified =>
        \A i \in 1..Len(Schema.mandex) :
            OtherwiseComplete(Schema, vOpts, Schema.mandex[i]) =>
                LET present == Cardinality(Schema.mandex[i] \cap DOMAIN vOpts)
                IN  /\ present = 0 => ~vResult.ok
                    /\ present = 1 => vResult.ok
                    /\ present = 2 => ~vResult.ok

\* C8: verify succeeds on every option map that is complete for its schema,
\* and on such a map with one mandatory key removed it fails with the
\* missing-options error whose message lists the removed key.
C8_CompleteVerifies ==
    Verified =>
        /\ Complete(Schema, vOpts) => vResult.ok
        /\ \A k \in Schema.mand :
              CompleteBut(Schema, vOpts, k) =>
                  /\ ~vResult.ok
                  /\ vResult.error = "missing"
                  /\ k \in vResult.names

\* verify has failed on a complete map that lost one mandatory key
C8_Witness ==
    /\ Verified
    /\ \E k \in Schema.mand : CompleteBut(Schema, vOpts, k) /\ k \in vResult.names

-----------------------------------------------------------------------------
(* Properties of the stage compilers *)

IsPropagation(r) == "type" \in DOMAIN r /\ r.type = "propagation"

IsMonitoring(r) == "tag" \notin DOMAIN r /\ r.type = "monitoring"

IsTerminal(r) == "tag" \in DOMAIN r /\ r.tag = "AUTOMATIC"

\* the steps of the propagation routines of a compiled stage, in order
PropagationSteps(routines) ==
    LET props == SelectSeq(routines, IsPropagation)
    IN  [i \in 1..Len(props) |-> props[i].step]

\* the time at which routine i of a compiled stage runs: the stage's start
\* plus the propagation steps before it
Clock(start_time, routines, i) ==
    start_time + SumSeq(PropagationSteps(SubSeq(routines, 1, i - 1)))

\* what routine i of a stage compiled by the preprocessor is, with its time
\* or its step
Shape(c, i) ==
    LET r == c.routines[i]
    IN  IF IsPropagation(r) THEN <<"propagate", r.step>>
        ELSE IF IsMonitoring(r) THEN <<"monitor", Clock(c.start_time, c.routines, i)>>
        ELSE IF IsTerminal(r) THEN <<"terminal", r.time>>
        ELSE <<"user", r.time>>

\* stage i was compiled, by one of the compilers fams, without an exception
CompiledBy(fams, i) ==
    /\ i <= Len(out)
    /\ family \in fams
    /\ sched.stages[i].type = "evolution"
    /\ out[i].error = "ok"

ExampleCompiled ==
    /\ family = "preprocessor"
    /\ sched = [start_time |-> 0, stages |-> <<ExampleStage>>]
    /\ Len(out) = 1

\* C3: the stage that starts at 0, lasts 10 with 3 monitoring steps and one
\* monitoring template, and has one Task with one routine at time 7, compiles
\* (preprocessor) to exactly monitor at 0, propagate 5, monitor at 5,
\* propagate 2, the user routine at 7, propagate 3, monitor at 10, terminal.
C3_ExampleSequence ==
    ExampleCompiled =>
        /\ out[1].error = "ok"
        /\ [i \in 1..Len(out[1].routines) |-> Shape(out[1], i)]
              = << <<"monitor", 0>>, <<"propagate", 5>>, <<"monitor", 5>>,
                   <<"propagate", 2>>, <<"user", 7>>, <<"propagate", 3>>,
                   <<"monitor", 10>>, <<"terminal", 10>> >>

\* the example stage has been compiled by the preprocessor
C3_Witness == ExampleCompiled /\ out[1].error = "ok" /\ Len(out[1].routines) = 8

\* C4: in every evolution stage compiled without an exception (preprocessor
\* or builder) the steps of the propagation routines sum to the stage's
\* propagation_time.
C4_StepsSumToPropagationTime ==
    \A i \in 1..Len(out) :
        CompiledBy({"preprocessor", "builder"}, i) =>
            SumSeq(PropagationSteps(out[i].routines))
                = sched.stages[i].options["propagation_time"]

\* C5: in every evolution stage compiled without an exception (by any of the
\* three compilers) every propagation step is positive and no propagation
\* routine directly follows another.
C5_StepsPositiveNotAdjacent ==
    \A i \in 1..Len(out) :
        CompiledBy({"preprocessor", "builder", "graph_compiler"}, i) =>
            \A k \in 1..Len(out[i].routines) :
                IsPropagation(out[i].routines[k]) =>
                    /\ out[i].routines[k].step > 0
                    /\ k < Len(out[i].routines) =>
                          ~IsPropagation(out[i].routines[k + 1])

\* the propagation times of the evolution stages before stage i
RECURSIVE PrecedingPropagation(_)
PrecedingPropagation(i) ==
    IF i <= 1 THEN 0
    ELSE PrecedingPropagation(i - 1)
         + (IF sched.stages[i - 1].type = "evolution"
            THEN sched.stages[i - 1].options["propagation_time"] ELSE 0)

\* C6: every evolution stage is compiled (preprocessor or builder) without an
\* exception, whatever stages precede it, and with a start time equal to the
\* schedule's start_time plus the propagation_time of all evolution stages
\* before it.
C6_StartTimeAccumulates ==
    \A i \in 1..Len(out) :
        (family \in {"preprocessor", "builder"} /\ sched.stages[i].type = "evolution") =>
            /\ out[i].error = "ok"
            /\ out[i].start_time = sched.start_time + PrecedingPropagation(i)

\* a user routine of the stage lies outside of [start_time, stop_time]
OutsideRange(stage, start_time, stop_time) ==
    \E i \in 1..Len(Leafs(stage)) :
        Leafs(stage)[i].time < start_time \/ Leafs(stage)[i].time > stop_time

\* a routine of a later Task is earlier than a routine of an earlier Task
TasksOverlap(stage) ==
    \E t1, t2 \in 1..Len(stage.tasks) :
        /\ t1 < t2
        /\ \E j1 \in 1..Len(stage.tasks[t1]), j2 \in 1..Len(stage.tasks[t2]) :
              stage.tasks[t2][j2].time < stage.tasks[t1][j1].time

\* C10: compiling an evolution stage (preprocessor or builder) fails with a
\* StageProcessingError exactly when a user routine's time lies outside of
\* the stage's time range or a routine of a later Task is earlier than one of
\* an earlier Task.
C10_TimeChecks ==
    (Len(out) = 1 /\ family \in {"preprocessor", "builder"}
        /\ sched.stages[1].type = "evolution") =>
        (out[1].error = "StageProcessingError"
            <=> \/ OutsideRange(sched.stages[1], sched.start_time,
                                sched.start_time
                                    + sched.stages[1].options["propagation_time"])
                \/ TasksOverlap(sched.stages[1]))

\* the step options a stage gives
StepsGiven(stage) ==
    {"monitoring_stepsize", "monitoring_numsteps"} \cap DOMAIN stage.options

\* C11: compiling an evolution stage with a monitoring section fails with a
\* StageProcessingError when the stage gives both or neither of
\* monitoring_stepsize and monitoring_numsteps, and succeeds (the stage has
\* no Tasks, so no other check can fail) when it gives exactly one
C11_StepOptionsChecked ==
    (/\ Len(out) = 1
     /\ family \in {"preprocessor", "builder"}
     /\ sched.stages[1].type = "evolution"
     /\ sched.stages[1].monitoring > 0
     /\ sched.stages[1].tasks = <<>>) =>
        IF Cardinality(StepsGiven(sched.stages[1])) = 1
        THEN out[1].error = "ok"
        ELSE out[1].error = "StageProcessingError"

\* the step resolves the predefined Task n, whose template name is unknown
ResolvesUnknown(n) ==
    /\ n \in Attached
    /\ nodes[n].rank = TaskRank
    /\ nodes[n].type \in PredefinedTypes
    /\ nodes[n].name \notin DOMAIN PredefTasks
    /\ \/ lastOp' = <<"inline", n>> /\ nodes[n].type # "predefined"
       \/ lastOp' = <<"resolve", n>> /\ nodes[n].type = "predefined"

\* C12: a step that resolves a predefined Task whose template name is not
\* among the predefined templates ends with a TaskResolverError and leaves
\* the children of every node, the Task's parent included, as they were
C12_UnknownTemplateFails ==
    [][\A n \in 1..Len(nodes) :
          ResolvesUnknown(n) => /\ err' = "TaskResolverError"
                                /\ children' = children]_vars

\* the options of routine r apart from its type
Untyped(r) == [k \in DOMAIN r \ {"type"} |-> r[k]]

\* C13: a compiled regular stage is compiled without error and has one
\* routine per declared routine, in declaration order, each with exactly the
\* keys of the run graph's regular routine and the declared values, and no
\* other routine
C13_RegularStageCopied ==
    \A i \in 1..Len(out) :
        (family \in {"builder", "intertorun"} /\ sched.stages[i].type = "regular") =>
            LET declared == Leafs(sched.stages[i])
            IN  /\ out[i].error = "ok"
                /\ Len(out[i].routines) = Len(declared)
                /\ \A j \in 1..Len(declared) :
                      /\ DOMAIN Untyped(out[i].routines[j]) = RegularRoutineKeys
                      /\ Untyped(out[i].routines[j]) = Untyped(declared[j])


-----------------------------------------------------------------------------
(* set_type *)

\* the option dict of node n holds a type
TypeGiven(o, n) == "type" \in DOMAIN o[nodes[n].label]

\* C15: set_type, on one node or over the graph, changes neither the option
\* dict nor the type of a node that has a type, nor the graph; and a
\* set_type pass over a graph that a set_type pass has completed on changes
\* nothing and completes again.
C15_SetTypeIdempotent ==
    [][/\ lastOp'[1] = "set_type"
            => /\ children' = children
               /\ \A n \in 1..Len(nodes) :
                    TypeGiven(optDicts, n)
                        => /\ optDicts'[nodes[n].label] = optDicts[nodes[n].label]
                           /\ nodes'[n] = nodes[n]
       /\ (lastOp' = <<"set_type", "graph">> /\ passes # <<>>)
            => /\ optDicts' = optDicts
               /\ nodes' = nodes
               /\ err' = "ok"]_vars

\* a second pass has completed on a graph some node of which was given
\* without a type
C15_Witness ==
    /\ Len(passes) = 2
    /\ err = "ok"
    /\ lastOp = <<"set_type", "graph">>
    /\ \E n \in 1..Len(given.nodes) : "type" \notin DOMAIN given.opts[given.nodes[n].label]
    /\ \A n \in 1..Len(nodes) : TypeGiven(optDicts, n)


-----------------------------------------------------------------------------
(* build *)

\* the user graph as the driver's caller sees it
UserGraph == [nodes |-> nodes, children |-> children, opts |-> optDicts]

\* C14: GraphBuilder.build leaves the user graph it is given as it was
\* given (nodes, children, types and option dicts), and the Run Graphs it
\* returns for the same user graph are equal.
C14_BuildPure ==
    family = "builder" =>
        /\ UserGraph = given
        /\ \A i, j \in 1..Len(built) : built[i] = built[j]


-----------------------------------------------------------------------------
(* Protocol *)

\* the labels of the schedules are pairwise distinct
LabelsDistinct(schedules) ==
    \A i, j \in 1..Len(schedules) : i # j => schedules[i].label # schedules[j].label

\* C16: the labels of the schedules of a Protocol are pairwise distinct
\* after its construction and after every add_schedule and
\* duplicate_schedule; constructing a Protocol from schedules two of which
\* have the same label raises ValueError; add_schedule with a label the
\* Protocol has raises ValueError and leaves the Protocol as it was.
C16_LabelsDistinct ==
    [][/\ family' = "Protocol" => LabelsDistinct(out')
       /\ (lastOp'.op = "construct" /\ ~LabelsDistinct(lastOp'.arg))
            => err' = "ValueError"
       /\ (lastOp'.op = "add" /\ lastOp'.arg[1] \in MapKeys(out))
            => err' = "ValueError" /\ out' = out]_vars


-----------------------------------------------------------------------------
(* Types and the parent's allowed children *)

\* the type names the specification of node p allows for children of the
\* rank of node n
AllowedFor(p, n) ==
    LET key == <<RankName(nodes[p].rank), nodes[p].type>>
        rankname == RankName(nodes[n].rank)
    IN  IF key \in DOMAIN AllowedChildren /\ rankname \in DOMAIN AllowedChildren[key]
        THEN AllowedChildren[key][rankname].names
        ELSE {}

\* C18: once the type resolution pass has completed without error, in that
\* state and in every later state of the build, also after task
\* resolution, the type of every node below the root is one of the types
\* that the specification of its parent allows for the node's rank, whether
\* the type was given or inferred; a pass that meets a node whose type is
\* not allowed ends with RankOrTypeError.
C18_TypeAllowedByParent ==
    /\ passes # <<>>
         => \A n \in Reach \ {Root} : nodes[n].type \in AllowedFor(nodes[n].parent, n)
    /\ (lastOp = <<"set_type", "graph">> /\ err # "ok"
        /\ \E n \in Reach \ {Root} :
              /\ HasType(optDicts[nodes[n].label])
              /\ nodes[nodes[n].parent].type # "none"
              /\ nodes[n].type \notin AllowedFor(nodes[n].parent, n))
         => err = "RankOrTypeError"


\* C19: a node that has a type, given in the input or set by type
\* resolution, keeps this type in every later step; assigning the type of a
\* node that has one raises ValueError and leaves the type as it was.
C19_TypeNeverChanges ==
    [][\A n \in 1..Len(nodes) :
          TypeGiven(optDicts, n) =>
              /\ TypeGiven(optDicts', n)
              /\ optDicts'[nodes[n].label]["type"] = optDicts[nodes[n].label]["type"]
              /\ lastOp' = <<"type", ToString(n)>> => err' = "ValueError"]_vars


-----------------------------------------------------------------------------
(* The order of the passes of a build *)

\* the passes that change the shape of the tree
TreePasses == {"resolve", "inline"}

\* the passes completed so far, with the pass that is running when the
\* driver has not raised
Started == IF err = "ok" /\ NextPass # "return" THEN Append(passes, NextPass) ELSE passes

\* C20: a build runs type resolution, task resolution or inlining, type
\* resolution again, option completion, validation, lowering and the final
\* verification in this order, each over the whole tree: the first pass is
\* type resolution, a tree pass is followed by a tree pass or by type
\* resolution, option completion comes right after type resolution and
\* after the tree passes, validation right after option completion,
\* lowering right after validation; every node, also a routine that task
\* resolution spliced in, has a type when option completion starts; and a
\* Run Graph is returned only after the final verification succeeded.
C20_PassOrder ==
    /\ Started # <<>> => Started[1] = "set_type"
    /\ \A i \in 1..Len(Started) :
          /\ (Started[i] \in TreePasses /\ i < Len(Started))
               => Started[i + 1] \in TreePasses \cup {"set_type"}
          /\ Started[i] = "set_options"
               => /\ Started[i - 1] = "set_type"
                  /\ \E j \in 1..(i - 1) : Started[j] \in TreePasses
          /\ Started[i] = "verify" => Started[i - 1] = "set_options"
          /\ Started[i] = "translate" => Started[i - 1] = "verify"
          /\ Started[i] = "compile" => Started[i - 1] = "translate"
    /\ Runs("set_options") => \A n \in Reach : nodes[n].type # "none"
    /\ built # <<>> => (err = "ok" /\ passes = DriverPasses["builder"])


-----------------------------------------------------------------------------
(* Monitoring in a compiled evolution stage *)

\* the number of monitoring samples the compiler of stage i works with
NumSamples(i) ==
    IF family = "preprocessor" THEN GetNumsteps(sched.stages[i].options).value
    ELSE GetInterOptsStage(sched.stages[i]).numsteps

\* the evenly spaced sample times of compiled stage i
SampleTimes(i) == Linspace(out[i].start_time, out[i].stop_time, NumSamples(i))

\* the time of routine k of a compiled stage: its own where it has one, the
\* time of the clock otherwise
TimeOf(c, k) ==
    IF "time" \in DOMAIN c.routines[k] THEN c.routines[k].time
    ELSE Clock(c.start_time, c.routines, k)

\* the monitoring routines of a compiled stage in order, each as its time
\* and its template
RECURSIVE MonitoringFrom(_, _)
MonitoringFrom(c, k) ==
    IF k > Len(c.routines) THEN <<>>
    ELSE (IF c.routines[k].type = "monitoring"
          THEN << <<TimeOf(c, k), c.routines[k].routine_name>> >>
          ELSE <<>>)
         \o MonitoringFrom(c, k + 1)

\* every template, in template order, at every sample time
ExpectedMonitoring(i) ==
    IF sched.stages[i].monitoring = 0 THEN <<>>
    ELSE Concat([k \in 1..Len(SampleTimes(i)) |->
                    [j \in 1..sched.stages[i].monitoring |-> <<SampleTimes(i)[k], j>>]])

\* C21: an evolution stage with monitoring templates compiled (preprocessor
\* or builder) without an exception holds, for each of its evenly spaced
\* sample times from start to stop, exactly one instance of every template
\* in template order, whatever its Tasks and routines are; a stage without
\* templates holds no monitoring routine.
C21_MonitoringAtEverySample ==
    \A i \in 1..Len(out) :
        CompiledBy({"preprocessor", "builder"}, i) =>
            MonitoringFrom(out[i], 1) = ExpectedMonitoring(i)


\* a routine the user declared
IsUser(r) == ~IsPropagation(r) /\ r.type # "monitoring" /\ ~IsTerminal(r)

\* the positions of the monitoring routines and of the user routines of
\* time t in a compiled stage
MonitoringAt(c, t) ==
    {k \in 1..Len(c.routines) : c.routines[k].type = "monitoring" /\ TimeOf(c, k) = t}

UserAt(c, t) ==
    {k \in 1..Len(c.routines) : IsUser(c.routines[k]) /\ c.routines[k].time = t}

\* the names of the routines of time t among routines, in order
RECURSIVE NamesAt(_, _)
NamesAt(routines, t) ==
    IF routines = <<>> THEN <<>>
    ELSE (IF IsUser(Head(routines)) /\ Head(routines).time = t
          THEN <<Head(routines).routine_name>> ELSE <<>>)
         \o NamesAt(Tail(routines), t)

\* the routines the user declared in stage i, typed as the compilers type
\* them
Declared(i) ==
    [k \in 1..Len(Leafs(sched.stages[i])) |->
        [type |-> "evolution"] @@ Leafs(sched.stages[i])[k]]

-----------------------------------------------------------------------------
(* The number of monitoring samples *)

\* graph_compiler _compile_evolution, lines 113-122: the monitoring times
MonTimesGC(schedule, stage) ==
    LET start_time == schedule.start_time
        stop_time == start_time + stage.options["propagation_time"]
    IN  IF "monitoring_stepsize" \in DOMAIN stage.options
        THEN Arange(start_time, stop_time, stage.options["monitoring_stepsize"])
                \o <<stop_time>>
        ELSE IF "monitoring_numsteps" \in DOMAIN stage.options
        THEN Linspace(start_time, stop_time, stage.options["monitoring_numsteps"])
        ELSE <<>>

\* the number of monitoring sample times the compiler of stage i uses
SamplesUsed(i) ==
    IF family = "graph_compiler" THEN Len(MonTimesGC(sched, sched.stages[i]))
    ELSE NumSamples(i)

\* ceil(p / d) of positive integers
Ceil(p, d) == (p + d - 1) \div d

\* C23: an evolution stage that gives monitoring_stepsize D and not
\* monitoring_numsteps, with propagation_time P, is compiled with
\* ceil(P / D) + 1 monitoring sample times, also when P is not a multiple
\* of D.
C23_SamplesFromStepsize ==
    \A i \in 1..Len(out) :
        (/\ CompiledBy({"preprocessor", "builder", "graph_compiler"}, i)
         /\ StepsGiven(sched.stages[i]) = {"monitoring_stepsize"}) =>
            SamplesUsed(i) = Ceil(sched.stages[i].options["propagation_time"],
                                  sched.stages[i].options["monitoring_stepsize"]) + 1


-----------------------------------------------------------------------------
(* The Tasks of a compiled evolution stage (preprocessor) *)

\* the names of the user routines among routines, in order
RECURSIVE UserNames(_)
UserNames(routines) ==
    IF routines = <<>> THEN <<>>
    ELSE (IF IsUser(Head(routines)) THEN <<Head(routines).routine_name>> ELSE <<>>)
         \o UserNames(Tail(routines))

\* the names of the routines a Task declared
DeclaredNames(task) == [j \in 1..Len(task) |-> task[j].routine_name]

\* C24: an evolution stage that declared Tasks has, after it was compiled
\* by the preprocessor, as many Tasks; the user routines of each Task are
\* the routines it declared, in their order; every Task but the last is
\* empty or ends with a user routine, so that the routines emitted before
\* a user routine are in its Task and those after the last user routine
\* in the last Task. A stage that declared no Tasks has one Task, which
\* holds the whole sequence.
C24_TasksKept ==
    \A i \in 1..Len(out) :
        CompiledBy({"preprocessor"}, i) =>
            LET declared == sched.stages[i].tasks
                tasks == out[i].tasks
            IN  IF declared = <<>>
                THEN Len(tasks) = 1 /\ tasks[1] = out[i].routines
                ELSE /\ Len(tasks) = Len(declared)
                     /\ \A t \in 1..Len(tasks) :
                           /\ UserNames(tasks[t]) = DeclaredNames(declared[t])
                           /\ (t < Len(tasks) /\ tasks[t] # <<>>)
                                => IsUser(tasks[t][Len(tasks[t])])

\* a stage of two Tasks, both with a routine, was compiled with monitoring
\* and propagation routines before the routine of the second Task and
\* after it
C24_Witness ==
    \E i \in 1..Len(out) :
        /\ CompiledBy({"preprocessor"}, i)
        /\ Len(out[i].tasks) = 2
        /\ UserNames(out[i].tasks[1]) # <<>>
        /\ Len(out[i].tasks[2]) >= 5
        /\ ~IsUser(out[i].tasks[2][1])
        /\ IsUser(out[i].tasks[2][3])


-----------------------------------------------------------------------------
(* The terminal routine *)

\* C25: every evolution stage compiled (preprocessor or builder) without
\* an exception holds exactly one terminal routine, tagged "AUTOMATIC" as
\* no other routine of the stage is; it is the last routine of the stage.
C25_OneTerminalLast ==
    \A i \in 1..Len(out) :
        CompiledBy({"preprocessor", "builder"}, i) =>
            /\ out[i].routines # <<>>
            /\ {k \in 1..Len(out[i].routines) : IsTerminal(out[i].routines[k])}
                  = {Len(out[i].routines)}


-----------------------------------------------------------------------------
(* Inlined routines *)

\* C26: when a Task that references a template is inlined in an evolution
\* stage, every routine of the inlined Task has, under the Task's time key
\* (stagetime or systemtime), the Task's anchor time plus the tasktime of
\* the template's routine at the same position, the routines are in the
\* template's order, and the template is the one given.
C26_InlinedTimesRebased ==
    \A i \in 1..Len(out) :
        out[i].error = "ok" =>
            LET task == sched.tasks[i]
                declared == sched.declared.routines
            IN  /\ sched.template = sched.declared
                /\ Len(out[i].routines) = Len(declared)
                /\ \A j \in 1..Len(declared) :
                      /\ out[i].routines[j].routine_name = declared[j].routine_name
                      /\ TimeKey(task) # "none"
                           => out[i].routines[j][TimeKey(task)]
                                 = task[TimeKey(task)] + declared[j].tasktime

\* the ancestors of node n whose own global_options has an entry for the
\* rank name of n that holds the key
Suppliers(dicts, n, key) ==
    {a \in 1..(n - 1) :
        /\ "global_options" \in DOMAIN dicts[a]
        /\ Lower(RankName(n - 1)) \in DOMAIN dicts[a]["global_options"]
        /\ key \in DOMAIN dicts[a]["global_options"][Lower(RankName(n - 1))]}

\* C27: options[key] returns the local value of the node when the key is
\* local; otherwise the value of the nearest ancestor whose own
\* global_options has an entry for the node's rank name with the key; it
\* fails with KeyError only when no ancestor supplies the key that way.
C27_NearestAncestorSupplies ==
    \A i \in 1..Len(out) :
        LET n == out[i].node
            from == Suppliers(optDicts, n, "k")
        IN  IF "k" \in DOMAIN optDicts[n]
            THEN out[i].error = "ok" /\ out[i].value = optDicts[n]["k"]
            ELSE IF from # {}
            THEN /\ out[i].error = "ok"
                 /\ out[i].value =
                      optDicts[CHOOSE a \in from : \A b \in from : b <= a]
                          ["global_options"][Lower(RankName(n - 1))]["k"]
            ELSE out[i].error = "KeyError"

\* C28: after set_options succeeds on a node every mandatory and every
\* optional key of its schema is local: a key that was local keeps its
\* value, a missing key takes the value of the ancestor-fallback lookup when
\* there is one, and only a missing optional key without one takes the
\* schema default; a missing mandatory key that the lookup does not find
\* makes set_options fail with a NodeConfigurationError.
C28_SetOptionsFills ==
    [][Len(out') = Len(out) + 1 =>
        LET n == out'[Len(out')].node
            error == out'[Len(out')].error
            sc == SchemaOf(optDicts, n)
            before == optDicts[n]
            after == optDicts'[n]
            missing == (sc.mand \cup sc.opt \cup GroupKeys(sc.optex)) \ DOMAIN before
        IN  /\ error = "ok" =>
                /\ sc.mand \cup sc.opt \cup GroupKeys(sc.optex) \subseteq DOMAIN after
                /\ \A k \in DOMAIN before : after[k] = before[k]
                /\ \A k \in missing :
                      IF GetItem(optDicts, n, k).error = "ok"
                      THEN after[k] = GetItem(optDicts, n, k).value
                      ELSE k \notin sc.mand /\ after[k] = SchemaDefault(k)
            /\ (\E k \in sc.mand \ DOMAIN before : GetItem(optDicts, n, k).error # "ok")
                  => error = "NodeConfigurationError"]_vars

\* a candidate type is option-complete: no mandatory key is missing and
\* every mandatory-exclusive group has a key in the option map
OptionComplete(rankname, t, local) ==
    LET sc == UserSchemas[<<rankname, t>>]
    IN  /\ sc.mand \subseteq DOMAIN local
        /\ \A i \in 1..Len(sc.mandex) : sc.mandex[i] \cap DOMAIN local # {}

\* the candidate types of node n after the narrowing: compatible with
\* check, allowed by the parent (by its type, or by the single candidate of
\* an untyped parent), and option-complete when more than one is left
RECURSIVE Candidates(_)
Candidates(n) ==
    LET rankname == RankName(nodes[n].rank)
        local == optDicts[nodes[n].label]
        p == nodes[n].parent
        ptypes == IF p = NoNode THEN {"NONE"}
                  ELSE IF TypeGiven(optDicts, p) THEN {nodes[p].type}
                  ELSE Candidates(p)
        prank == IF p = NoNode THEN "NONE" ELSE RankName(nodes[p].rank)
        allowed == UNION {IF /\ <<prank, pt>> \in DOMAIN AllowedChildren
                             /\ rankname \in DOMAIN AllowedChildren[<<prank, pt>>]
                          THEN AllowedChildren[<<prank, pt>>][rankname].names
                          ELSE {} : pt \in IF Cardinality(ptypes) = 1 THEN ptypes ELSE {}}
        narrowed == {t \in TypesOf(rankname) \cap allowed :
                        Check(UserSchemas[<<rankname, t>>], local).ok}
    IN  IF Cardinality(narrowed) > 1
        THEN {t \in narrowed : OptionComplete(rankname, t, local)}
        ELSE narrowed

\* C29: set_type on a node without a type gives it the single candidate
\* left after the narrowing (compatible with check, allowed by the parent,
\* and, only when more than one is left, option-complete); with no
\* candidate or more than one left it fails with NodeConfigurationError and
\* the node stays without a type.
C29_SingleCandidateAssigned ==
    [][out' # out =>
        LET n == out'[1].node
            label == nodes[n].label
        IN  ~TypeGiven(optDicts, n) =>
                IF Cardinality(Candidates(n)) = 1
                THEN /\ out'[1].error = "ok"
                     /\ TypeGiven(optDicts', n)
                     /\ optDicts'[label]["type"] \in Candidates(n)
                     /\ nodes'[n].type \in Candidates(n)
                ELSE /\ out'[1].error = "NodeConfigurationError"
                     /\ optDicts' = optDicts
                     /\ nodes' = nodes]_vars

\* the children of node q before a step that may have made new nodes with
\* make_child: a new node has no children
ChildrenBefore(q) == IF q <= Len(nodes) THEN children[q] ELSE <<>>

\* C30: assigning the children of a node succeeds only if every new child
\* has this node as its parent (all nodes of a graph are instances of the
\* class that is the declared child type); on success the ID of the node is
\* in the root's mutated set; on failure an error is raised and the
\* children of every node and the mutated set are as before the assignment.
C30_AssignChildrenAtomic ==
    [][lastOp' = "set_children" =>
        IF err' = "ok"
        THEN \E p \in 1..Len(nodes') :
                /\ \A q \in 1..Len(nodes') : q # p => children'[q] = ChildrenBefore(q)
                /\ \A i \in 1..Len(children'[p]) : nodes'[children'[p][i]].parent = p
                /\ IDDefined(nodes', children', idxCache', p)
                /\ mutated' = mutated \cup {ID(nodes', children', idxCache', p)}
        ELSE /\ \A q \in 1..Len(nodes') : children'[q] = ChildrenBefore(q)
             /\ mutated' = mutated]_vars

====
